---- MODULE Spec2Model ----
(***************************************************************************)
(* Verification model of parts of TSDuck (libtsduck and tsplugins):        *)
(*   - ts::DescriptorList   (src/src/libtsduck/tsDescriptorList.cpp)       *)
(*   - ts::ClearPlugin      (src/src/tsplugins/tsplugin_clear.cpp)         *)
(*   - ts::T2MIPlugin       (src/src/tsplugins/tsplugin_t2mi.cpp)          *)
(*   - ts::EIT              (src/src/libtsduck/tsEIT.cpp)                  *)
(*   - ts::PCRVerifyPlugin  (src/src/tsplugins/tsplugin_pcrverify.cpp)     *)
(*   - ts::PMTPlugin        (src/src/tsplugins/tsplugin_pmt.cpp)           *)
(*   - ts::SIFilterPlugin   (src/src/tsplugins/tsplugin_sifilter.cpp)      *)
(*   - typed descriptors    (src/src/libtsduck/ts*Descriptor.cpp)          *)
(*   - ts::PCRExtractPlugin (src/src/tsplugins/tsplugin_pcrextract.cpp)    *)
(*   - ts::PESPlugin        (src/src/tsplugins/tsplugin_pes.cpp)           *)
(*   - ts::EIT table id's   (src/src/libtsduck/tsEIT.cpp, setActual)       *)
(* Each component has its own specification (SpecDL, SpecClear, SpecT2MI,  *)
(* SpecEIT, SpecVerify, SpecPMTPlugin, SpecSIFilter, SpecTD,               *)
(* SpecPCRExtract, SpecPES, SpecEITId); the variables of the other         *)
(* components stay at their initial values.                                *)
(***************************************************************************)
EXTENDS Integers, Sequences, FiniteSets, TLC

VARIABLES
    \* ---- ts::DescriptorList
    list,       \* _list: sequence of Element [desc, pds]
    dl_last,    \* history: the last operation, its arguments, its result and the list before it
    \* ---- ts::ClearPlugin
    cl_opt,          \* command line: [service, video, audio, stuffing, drop_after]
    abort,           \* _abort
    service,         \* _service: [has_name, id, pmt_pid] (0: unknown)
    pass_packets,    \* _pass_packets
    drop_status,     \* _drop_status
    drop_after,      \* _drop_after
    current_pkt,     \* _current_pkt
    last_clear_pkt,  \* _last_clear_pkt
    clear_pids,      \* _clear_pids
    demux_pids,      \* the PIDs _demux filters
    cl_hist,         \* history of the run since start()
    \* ---- ts::T2MIPlugin
    t2_opt,          \* command line: [extract, log, pid, plp]
    extract,         \* _extract
    log,             \* _log
    pid,             \* _pid
    plp,             \* _plp
    plp_valid,       \* _plp_valid
    t2mi_count,      \* _t2mi_count
    ts_count,        \* _ts_count
    ts_queue,        \* _ts_queue
    t2_hist,         \* history of the run since start()
    \* ---- ts::EIT
    events,          \* EIT::events: event id -> Event
    is_valid,        \* _is_valid
    eit_bin,         \* the binary table that was received (a sequence of sections)
    eit_out,         \* the binary table that serialize() built
    eit_phase,       \* "typed", "serialized", "received", "decoded", "reserialized"
    \* ---- ts::PCRVerifyPlugin
    pv_opt,            \* command line: [absolute, bitrate, jitter_max, pids]
    absolute,          \* _absolute
    pv_bitrate,        \* _bitrate
    jitter_max,        \* _jitter_max, in PCR units
    pid_list,          \* _pid_list
    packet_count,      \* _packet_count
    nb_pcr_ok,         \* _nb_pcr_ok
    nb_pcr_nok,        \* _nb_pcr_nok
    nb_pcr_unchecked,  \* _nb_pcr_unchecked
    stats,             \* _stats: PID -> [last_pcr_value, last_pcr_packet]
    pv_hist,           \* history of the run since start()
    \* ---- ts::PMTPlugin
    pm_opt,      \* command line: [pmt_pid, ac3_atsc2dvb, eac3_atsc2dvb, cleanup_priv_desc, add_stream_id, moved_pid]
    pm_abort,    \* _abort
    pm_ready,    \* _ready
    pm_service,  \* _service: [id, pmt_pid] (0: unknown)
    pm_in,       \* history: the last PMT that was modified, as received
    pm_out,      \* the modified PMT in the packetizer (_pzer)
    pm_count,    \* history: the number of PMT's modified since start()
    pm_hist,     \* history: the PID of the last packet processed, the returned status, the packet forwarded
    \* ---- ts::SIFilterPlugin
    sf_opt,         \* command line: [tables, pmt, stuffing, pass_ecm, pass_emm, min_cas_id, max_cas_id]
    sf_pass_pmt,    \* _pass_pmt
    sf_drop_status, \* _drop_status
    sf_pass_pids,   \* _pass_pids
    sf_demux_pids,  \* the PID's filtered by _demux
    sf_pat,         \* history: the PMT PID's of the last PAT that the demux delivered
    sf_cas_pids,    \* history: the matching ECM/EMM PID's of all CAT's and PMT's delivered
    sf_hist,        \* history: the last packet processed and its returned status
    \* ---- typed descriptors (ts::AC3Descriptor, ts::PrivateDataSpecifierDescriptor,
    \*      ts::ServiceDescriptor, ts::DataBroadcastDescriptor)
    td_obj,      \* the typed descriptor object: its class, _is_valid and its fields
    td_bin,      \* history: the binary descriptor of the last deserialize()
    td_out,      \* history: the binary descriptor that the last serialize() built
    td_phase,    \* history: "built", "decoded" (after deserialize), "encoded" (after serialize)
    \* ---- ts::PCRExtractPlugin
    px_opt,            \* command line: [pcr, opcr, pts, dts, good_pts_only]
    px_get,            \* [pcr |-> _get_pcr, opcr |-> _get_opcr, pts |-> _get_pts, dts |-> _get_dts]
    px_good_pts_only,  \* _good_pts_only
    px_packet_count,   \* _packet_count
    px_stats,          \* _stats: PID -> PIDContext
    px_report          \* the lines written to _output since start(), after the header

VARIABLES
    \* ---- ts::PESPlugin
    pes_opt,             \* command line: [trace_packets, header, payload, start_code, avc_access_unit, max_dump_count]
    pes_max_dump_count,  \* _max_dump_count
    pes_abort,           \* _abort
    pes_hist             \* history of the run since start()

VARIABLES
    \* ---- ts::EIT, the table id's
    ti_table_id,       \* _table_id
    ti_last_table_id,  \* last_table_id
    ti_hist            \* history: the last call of setActual

dl_vars == <<list, dl_last>>

cl_vars == <<cl_opt, abort, service, pass_packets, drop_status, drop_after, current_pkt,
             last_clear_pkt, clear_pids, demux_pids, cl_hist>>

t2_vars == <<t2_opt, extract, log, pid, plp, plp_valid, t2mi_count, ts_count, ts_queue, t2_hist>>

eit_vars == <<events, is_valid, eit_bin, eit_out, eit_phase>>

pv_vars == <<pv_opt, absolute, pv_bitrate, jitter_max, pid_list, packet_count,
             nb_pcr_ok, nb_pcr_nok, nb_pcr_unchecked, stats, pv_hist>>

pm_vars == <<pm_opt, pm_abort, pm_ready, pm_service, pm_in, pm_out, pm_count, pm_hist>>

sf_vars == <<sf_opt, sf_pass_pmt, sf_drop_status, sf_pass_pids, sf_demux_pids, sf_pat,
             sf_cas_pids, sf_hist>>

td_vars == <<td_obj, td_bin, td_out, td_phase>>

px_vars == <<px_opt, px_get, px_good_pts_only, px_packet_count, px_stats, px_report>>

pes_vars == <<pes_opt, pes_max_dump_count, pes_abort, pes_hist>>

ti_vars == <<ti_table_id, ti_last_table_id, ti_hist>>

vars == <<dl_vars, cl_vars, t2_vars, eit_vars, pv_vars, pm_vars, sf_vars, td_vars, px_vars, pes_vars, ti_vars>>

\* The variables of the other components.
dl_others == <<cl_vars, t2_vars, eit_vars, pv_vars, pm_vars, sf_vars, td_vars, px_vars, pes_vars, ti_vars>>
cl_others == <<dl_vars, t2_vars, eit_vars, pv_vars, pm_vars, sf_vars, td_vars, px_vars, pes_vars, ti_vars>>
t2_others == <<dl_vars, cl_vars, eit_vars, pv_vars, pm_vars, sf_vars, td_vars, px_vars, pes_vars, ti_vars>>
eit_others == <<dl_vars, cl_vars, t2_vars, pv_vars, pm_vars, sf_vars, td_vars, px_vars, pes_vars, ti_vars>>
pv_others == <<dl_vars, cl_vars, t2_vars, eit_vars, pm_vars, sf_vars, td_vars, px_vars, pes_vars, ti_vars>>
pm_others == <<dl_vars, cl_vars, t2_vars, eit_vars, pv_vars, sf_vars, td_vars, px_vars, pes_vars, ti_vars>>
sf_others == <<dl_vars, cl_vars, t2_vars, eit_vars, pv_vars, pm_vars, td_vars, px_vars, pes_vars, ti_vars>>
td_others == <<dl_vars, cl_vars, t2_vars, eit_vars, pv_vars, pm_vars, sf_vars, px_vars, pes_vars, ti_vars>>
px_others == <<dl_vars, cl_vars, t2_vars, eit_vars, pv_vars, pm_vars, sf_vars, td_vars, pes_vars, ti_vars>>
pes_others == <<dl_vars, cl_vars, t2_vars, eit_vars, pv_vars, pm_vars, sf_vars, td_vars, px_vars, ti_vars>>
ti_others == <<dl_vars, cl_vars, t2_vars, eit_vars, pv_vars, pm_vars, sf_vars, td_vars, px_vars, pes_vars>>

(***************************************************************************)
(* Generic helpers                                                         *)
(***************************************************************************)

\* std::vector::erase(begin() + i): the sequence without its i-th element (1-based).
Erase(s, i) == [k \in 1..(Len(s) - 1) |-> IF k < i THEN s[k] ELSE s[k + 1]]

(***************************************************************************)
(* ts::DescriptorList                                                      *)
(***************************************************************************)

\* Bounds of the descriptor list model.
MaxListLen == 4

\* The PDS values of the model (a PDS is a 32-bit value, 0 meaning "none").
PDSValues == {0, 1, 2}

\* Descriptor tags. DID_PRIV_DATA_SPECIF is the private_data_specifier_descriptor;
\* tags >= 0x80 are private descriptors.
DID_PRIV_DATA_SPECIF == 95
DID_EXTENSION == 127
DID_PRIVATE_MIN == 128

\* A binary descriptor: its tag, its payload size and, for a payload of at least
\* 4 bytes, the 32-bit big-endian value of its first 4 bytes (GetUInt32).
Desc(t, n, v) == [tag |-> t, psize |-> n, val |-> v]

\* The private_data_specifier_descriptors of the model: well-formed ones declaring
\* a value of PDSValues, and a malformed one with a 2-byte payload.
PDSDescs == {Desc(DID_PRIV_DATA_SPECIF, 4, v) : v \in PDSValues} \cup {Desc(DID_PRIV_DATA_SPECIF, 2, 0)}

\* The descriptors that operations may add.
DescSet == PDSDescs \cup {Desc(DID_EXTENSION, 0, 0), Desc(DID_PRIVATE_MIN, 0, 0)}

\* The tags removeByTag is called with.
TagSet == {d.tag : d \in DescSet}

\* DescriptorList::add(const DescriptorPtr&): the PDS associated with the new element.
AddPDS(l, desc) ==
    IF desc.tag = DID_PRIV_DATA_SPECIF
    THEN (IF desc.psize < 4 THEN 0 ELSE desc.val)
    ELSE IF Len(l) = 0 THEN 0
    ELSE l[Len(l)].pds

\* Mutant of add: a non-PDS descriptor always gets PDS 0.
add_NoInherit(l, desc) ==
    Append(l, [desc |-> desc,
               pds |-> IF desc.tag = DID_PRIV_DATA_SPECIF /\ desc.psize >= 4 THEN desc.val ELSE 0])

\* DescriptorList::add(const DescriptorPtr&)
add(l, desc) ==
    Append(l, [desc |-> desc, pds |-> AddPDS(l, desc)])

\* DescriptorList::addPrivateDataSpecifier(PDS): adds PrivateDataSpecifierDescriptor(pds)
\* (a 4-byte payload holding pds) when pds is not the current one.
addPrivateDataSpecifier(l, pds) ==
    IF pds # 0 /\ (Len(l) = 0 \/ l[Len(l)].pds # pds)
    THEN add(l, Desc(DID_PRIV_DATA_SPECIF, 4, pds))
    ELSE l

\* prepareRemovePDS, the search loop: the position where "end" stops, starting at j.
\* 0 stands for the early "return false" on a private descriptor.
RECURSIVE SearchEnd(_, _)
SearchEnd(l, j) ==
    IF j > Len(l) THEN j
    ELSE IF l[j].desc.tag >= DID_PRIVATE_MIN THEN 0
    ELSE IF l[j].desc.tag = DID_PRIV_DATA_SPECIF THEN j
    ELSE SearchEnd(l, j + 1)

\* Mutant of prepareRemovePDS: the per-element PDS values are not updated.
prepareRemovePDS_NoUpdate(l, it) ==
    IF it > Len(l) \/ l[it].desc.tag # DID_PRIV_DATA_SPECIF
    THEN [ok |-> FALSE, list |-> l]
    ELSE [ok |-> SearchEnd(l, it + 1) # 0, list |-> l]

\* Mutant of prepareRemovePDS: private descriptors ahead are not looked for.
prepareRemovePDS_NoCheck(l, it) ==
    IF it > Len(l) \/ l[it].desc.tag # DID_PRIV_DATA_SPECIF
    THEN [ok |-> FALSE, list |-> l]
    ELSE [ok |-> TRUE, list |-> l]

\* DescriptorList::prepareRemovePDS(it): [ok, list]; "it" is a 1-based position,
\* Len(l)+1 is _list.end().
prepareRemovePDS(l, it) ==
    IF it > Len(l) \/ l[it].desc.tag # DID_PRIV_DATA_SPECIF
    THEN [ok |-> FALSE, list |-> l]
    ELSE LET end == SearchEnd(l, it + 1)
             previous_pds == IF it = 1 THEN 0 ELSE l[it - 1].pds
         IN  IF end = 0
             THEN [ok |-> FALSE, list |-> l]
             ELSE [ok |-> TRUE,
                   list |-> [k \in 1..Len(l) |->
                               IF k > it /\ k < end
                               THEN [l[k] EXCEPT !.pds = previous_pds]
                               ELSE l[k]]]

\* DescriptorList::removeByIndex(index): [ret, list]; index is 0-based as in the code.
removeByIndex(l, index) ==
    IF index >= Len(l) THEN [ret |-> FALSE, list |-> l]
    ELSE IF l[index + 1].desc.tag = DID_PRIV_DATA_SPECIF
    THEN LET p == prepareRemovePDS(l, index + 1)
         IN  IF ~p.ok THEN [ret |-> FALSE, list |-> l]
             ELSE [ret |-> TRUE, list |-> Erase(p.list, index + 1)]
    ELSE [ret |-> TRUE, list |-> Erase(l, index + 1)]

\* DescriptorList::removeByTag, the loop from position it with removed_count so far.
RECURSIVE removeByTagLoop(_, _, _, _, _)
removeByTagLoop(l, it, tag, pds, removed_count) ==
    IF it > Len(l) THEN [ret |-> removed_count, list |-> l]
    ELSE LET check_pds == pds # 0 /\ tag >= DID_PRIVATE_MIN
             itag == l[it].desc.tag
             match == itag = tag /\ (~check_pds \/ l[it].pds = pds)
             p == prepareRemovePDS(l, it)
         IN  IF match /\ itag # DID_PRIV_DATA_SPECIF
             THEN removeByTagLoop(Erase(l, it), it, tag, pds, removed_count + 1)
             ELSE IF match /\ p.ok
             THEN removeByTagLoop(Erase(p.list, it), it, tag, pds, removed_count + 1)
             ELSE removeByTagLoop(l, it + 1, tag, pds, removed_count)

\* DescriptorList::removeByTag(tag, pds): [ret, list]
removeByTag(l, tag, pds) == removeByTagLoop(l, 1, tag, pds, 0)

\* DescriptorList::removeInvalidPrivateDescriptors, the loop at 0-based index n:
\* the loop goes on to the first element from n that is erased, and continues
\* after the index of the erased element.
\* Every descriptor of the list is non-null and valid (add(const AbstractDescriptor&)
\* and add(const void*, size_t) only insert valid descriptors).
RECURSIVE removeInvalidLoop(_, _, _)
removeInvalidLoop(l, n, count) ==
    LET next == {i \in n..(Len(l) - 1) : l[i + 1].pds = 0 /\ l[i + 1].desc.tag >= DID_PRIVATE_MIN}
    IN  IF next = {} THEN [ret |-> count, list |-> l]
        ELSE LET i == CHOOSE x \in next : \A y \in next : x <= y
             IN  removeInvalidLoop(Erase(l, i + 1), i + 1, count + 1)

\* DescriptorList::removeInvalidPrivateDescriptors(): [ret, list]
removeInvalidPrivateDescriptors(l) == removeInvalidLoop(l, 0, 0)

\* ---- actions of the descriptor list

DLNoOp == [op |-> "none", index |-> 0, tag |-> 0, pds |-> 0, ret |-> 0, before |-> <<>>]

DLCreated(l) ==
    /\ list = l
    /\ dl_last = DLNoOp

DLAdd ==
    \E d \in DescSet :
        /\ Len(list) < MaxListLen
        /\ list' = add(list, d)
        /\ dl_last' = [DLNoOp EXCEPT !.op = "add", !.tag = d.tag, !.before = list]
        /\ UNCHANGED dl_others

DLAddPrivateDataSpecifier ==
    \E pds \in PDSValues :
        /\ Len(list) < MaxListLen
        /\ list' = addPrivateDataSpecifier(list, pds)
        /\ dl_last' = [DLNoOp EXCEPT !.op = "addPrivateDataSpecifier", !.pds = pds, !.before = list]
        /\ UNCHANGED dl_others

DLRemoveByIndex ==
    \E index \in 0..MaxListLen :
        LET r == removeByIndex(list, index)
        IN  /\ list' = r.list
            /\ dl_last' = [DLNoOp EXCEPT !.op = "removeByIndex", !.index = index,
                                         !.ret = IF r.ret THEN 1 ELSE 0, !.before = list]
            /\ UNCHANGED dl_others

DLRemoveByTag ==
    \E tag \in TagSet, pds \in PDSValues :
        LET r == removeByTag(list, tag, pds)
        IN  /\ list' = r.list
            /\ dl_last' = [DLNoOp EXCEPT !.op = "removeByTag", !.tag = tag, !.pds = pds,
                                         !.ret = r.ret, !.before = list]
        /\ UNCHANGED dl_others
            /\ UNCHANGED dl_others

DLRemoveInvalidPrivateDescriptors ==
    LET r == removeInvalidPrivateDescriptors(list)
    IN  /\ list' = r.list
        /\ dl_last' = [DLNoOp EXCEPT !.op = "removeInvalidPrivateDescriptors",
                                     !.ret = r.ret, !.before = list]
        /\ UNCHANGED dl_others

DLNext ==
    \/ DLAdd
    \/ DLAddPrivateDataSpecifier
    \/ DLRemoveByIndex
    \/ DLRemoveByTag
    \/ DLRemoveInvalidPrivateDescriptors

(***************************************************************************)
(* ts::ClearPlugin                                                         *)
(***************************************************************************)

\* Bound: the number of packets processed after start().
MaxPkts == 7

\* Size of a TS packet in bytes.
PKT_SIZE == 188

\* PIDs of the tables the plugin filters.
PID_PAT == 0
PID_SDT == 17

\* PIDs of the model's stream: the PMT PIDs of services 1 and 2, one video and one
\* audio elementary stream.
PMT_PID_1 == 256
PMT_PID_2 == 257
VIDEO_PID == 512
AUDIO_PID == 513

\* Plugin status values (ProcessorPlugin::Status).
TSP_OK == "OK"
TSP_END == "END"
TSP_DROP == "DROP"
TSP_NULL == "NULL"

\* The command lines of the model: --service (none, the id 1, or a name), --video,
\* --audio, --stuffing, --drop-after-packets (0: not given; POSITIVE otherwise).
ClearOptions ==
    [service : {"none", "id", "name"}, video : BOOLEAN, audio : BOOLEAN,
     stuffing : BOOLEAN, drop_after : {0, 1, 2}]

\* tsp->bitrate() in bits/second: unknown, less than one packet per second, one
\* packet per second, a little more than two packets per second.
Bitrates == {0, 1000, PKT_SIZE * 8, 2 * PKT_SIZE * 8 + 100}

\* The tables that packets complete. A PAT maps service ids to PMT PIDs, an SDT
\* holds the reference service name (with its id) or not, a PMT holds the
\* audio and video PIDs of a service.
PATs == { [tid |-> "PAT", pmts |-> m] :
            m \in { <<>>, <<PMT_PID_1>>, <<0, PMT_PID_2>>, <<PMT_PID_1, PMT_PID_2>> } }
SDTs == { [tid |-> "SDT", found |-> f, service_id |-> 1] : f \in BOOLEAN }
PMT(i, v, a) == [tid |-> "PMT", service_id |-> i, video |-> v, audio |-> a]
PMTs == { PMT(1, {VIDEO_PID}, {AUDIO_PID}), PMT(1, {}, {AUDIO_PID}), PMT(1, {}, {}),
          PMT(2, {VIDEO_PID}, {AUDIO_PID}) }

NoTable == [tid |-> "none"]

\* The input packets: PID, scrambling (isClear) and the table the packet completes.
\* PMT_PID_1 carries the PMT's of both services, PMT_PID_2 the PMT of service 2.
ClearPackets ==
    { [pid |-> PID_PAT, clear |-> TRUE, table |-> t] : t \in PATs }
    \cup { [pid |-> PID_SDT, clear |-> TRUE, table |-> t] : t \in SDTs }
    \cup { [pid |-> PMT_PID_1, clear |-> TRUE, table |-> t] : t \in PMTs }
    \cup { [pid |-> PMT_PID_2, clear |-> TRUE, table |-> PMT(2, {VIDEO_PID}, {AUDIO_PID})] }
    \cup { [pid |-> p, clear |-> c, table |-> NoTable] : p \in {VIDEO_PID, AUDIO_PID}, c \in BOOLEAN }

\* The service ids of a PAT (PAT::pmts is a map ordered by service id; a PMT PID of
\* 0 in the model's sequence means that the service is not in the PAT).
PATServices(pat) == {i \in 1..Len(pat.pmts) : pat.pmts[i] # 0}

\* The smallest element of a non-empty set of integers (std::map::begin()).
MinOf(S) == CHOOSE x \in S : \A y \in S : x <= y

\* The plugin fields that handleTable can change.
ClearTableState == [abort |-> abort, service |-> service, clear_pids |-> clear_pids, demux_pids |-> demux_pids]

\* ClearPlugin::processSDT
processSDT(st, sdt) ==
    IF ~sdt.found
    THEN [st EXCEPT !.abort = TRUE]
    ELSE [st EXCEPT !.service = [has_name |-> st.service.has_name, id |-> sdt.service_id, pmt_pid |-> 0],
                    !.demux_pids = (st.demux_pids \ {PID_SDT}) \cup {PID_PAT}]

\* ClearPlugin::processPAT
processPAT(st, pat) ==
    IF st.service.id # 0
    THEN IF st.service.id \notin PATServices(pat)
         THEN [st EXCEPT !.abort = TRUE]
         ELSE [st EXCEPT !.service.pmt_pid = pat.pmts[st.service.id],
                         !.demux_pids = (IF st.service.pmt_pid # 0
                                         THEN st.demux_pids \ {st.service.pmt_pid}
                                         ELSE st.demux_pids) \cup {pat.pmts[st.service.id]}]
    ELSE IF PATServices(pat) # {}
    THEN LET first == MinOf(PATServices(pat))
         IN  [st EXCEPT !.service.id = first,
                        !.service.pmt_pid = pat.pmts[first],
                        !.demux_pids = st.demux_pids \cup {pat.pmts[first]}]
    ELSE [st EXCEPT !.abort = TRUE]

\* ClearPlugin::processPMT
processPMT(st, pmt) ==
    [st EXCEPT !.clear_pids = (IF ~cl_opt.video THEN pmt.audio ELSE {})
                              \cup (IF ~cl_opt.audio THEN pmt.video ELSE {})]

\* ClearPlugin::handleTable
handleTable(st, source_pid, table) ==
    IF table.tid = "PAT" /\ source_pid = PID_PAT THEN processPAT(st, table)
    ELSE IF table.tid = "SDT" /\ source_pid = PID_SDT THEN processSDT(st, table)
    ELSE IF table.tid = "PMT" /\ st.service.id # 0 /\ st.service.id = table.service_id
    THEN processPMT(st, table)
    ELSE st

\* SectionDemux::feedPacket: a table completed by a packet of a filtered PID is
\* handed to handleTable.
feedPacket(st, pkt) ==
    IF pkt.table.tid # "none" /\ pkt.pid \in st.demux_pids
    THEN handleTable(st, pkt.pid, pkt.table)
    ELSE st

\* ClearPlugin::processPacket, lines 350-353: a clear packet of a checked PID lets
\* the packets pass. The result is <<_pass_packets, _last_clear_pkt>>.
SeeClear_NoLast(pids, pkt, pass, cur, last) ==
    IF pkt.pid \in pids /\ pkt.clear THEN <<TRUE, last>> ELSE <<pass, last>>

SeeClear(pids, pkt, pass, cur, last) ==
    IF pkt.pid \in pids /\ pkt.clear THEN <<TRUE, cur>> ELSE <<pass, last>>

\* ClearPlugin::processPacket, lines 357-366: the hold-off in packets.
HoldOff(da, bitrate) == IF da = 0 THEN bitrate \div (PKT_SIZE * 8) ELSE da

\* ClearPlugin::processPacket, lines 370-372: _pass_packets after the hold-off check.
StillPassing_OffByOne(pass, cur, last, da) ==
    IF pass /\ (cur - last) > da + 1 THEN FALSE ELSE pass

StillPassing(pass, cur, last, da) ==
    IF pass /\ (cur - last) > da THEN FALSE ELSE pass

\* ClearPlugin::processPacket: the new values of the fields and the returned status.
processPacket(pkt, bitrate) ==
    LET fed == feedPacket(ClearTableState, pkt)
        seen == SeeClear(fed.clear_pids, pkt, pass_packets, current_pkt, last_clear_pkt)
        da == HoldOff(drop_after, bitrate)
        unchanged == [abort |-> fed.abort, service |-> fed.service, clear_pids |-> fed.clear_pids,
                      demux_pids |-> fed.demux_pids, pass_packets |-> pass_packets,
                      last_clear_pkt |-> last_clear_pkt, drop_after |-> drop_after,
                      current_pkt |-> current_pkt, status |-> TSP_END]
    IN  IF fed.abort THEN unchanged
        ELSE IF da = 0
        THEN [unchanged EXCEPT !.pass_packets = seen[1], !.last_clear_pkt = seen[2]]
        ELSE LET pass == StillPassing(seen[1], current_pkt, seen[2], da)
             IN  [unchanged EXCEPT !.pass_packets = pass, !.last_clear_pkt = seen[2],
                                   !.drop_after = da, !.current_pkt = current_pkt + 1,
                                   !.status = IF pass THEN TSP_OK ELSE drop_status]

\* History of the run: idx is the number of packets processed since start(), status
\* the last returned status, checked tells that the last packet was a clear packet
\* of a PID of _clear_pids, previous_pass is _pass_packets before the last packet,
\* last_clear is the index of the most recent clear packet of a checked PID (-1: none),
\* ended tells that TSP_END was returned (ended_before: before the last packet),
\* stopped that forwarding stopped after having started, second is the number of
\* packets transmitted in one second at the bitrate of the pipeline at the last packet.
ClearNoHist ==
    [idx |-> 0, status |-> "none", checked |-> FALSE,
     previous_pass |-> FALSE, last_clear |-> -1, ended |-> FALSE, ended_before |-> FALSE,
     stopped |-> FALSE, second |-> 0]

\* ClearPlugin::start for the command line opt
ClearStarted(opt) ==
    /\ cl_opt = opt
    /\ abort = FALSE
    /\ service = [has_name |-> opt.service = "name", id |-> IF opt.service = "id" THEN 1 ELSE 0, pmt_pid |-> 0]
    /\ pass_packets = FALSE
    /\ drop_status = IF opt.stuffing THEN TSP_NULL ELSE TSP_DROP
    /\ drop_after = opt.drop_after
    /\ current_pkt = 0
    /\ last_clear_pkt = 0
    /\ clear_pids = {}
    /\ demux_pids = {IF opt.service = "name" THEN PID_SDT ELSE PID_PAT}
    /\ cl_hist = ClearNoHist

\* The plugin is created and started with a command line of opts.
ClearCreated(opts) == \E opt \in opts : ClearStarted(opt)

\* ClearPlugin::start, called again with the same command line.
ClearStart ==
    /\ cl_hist.idx > 0
    /\ abort' = FALSE
    /\ service' = [has_name |-> cl_opt.service = "name", id |-> IF cl_opt.service = "id" THEN 1 ELSE 0, pmt_pid |-> 0]
    /\ pass_packets' = FALSE
    /\ drop_status' = IF cl_opt.stuffing THEN TSP_NULL ELSE TSP_DROP
    /\ drop_after' = cl_opt.drop_after
    /\ current_pkt' = 0
    /\ last_clear_pkt' = 0
    /\ clear_pids' = {}
    /\ demux_pids' = {IF cl_opt.service = "name" THEN PID_SDT ELSE PID_PAT}
    /\ cl_hist' = ClearNoHist
    /\ UNCHANGED <<cl_opt, cl_others>>

\* ClearPlugin::processPacket on the next packet of the stream.
ClearProcessPacket ==
    \E pkt \in ClearPackets, bitrate \in (IF cl_opt.drop_after = 0 THEN Bitrates ELSE {0}) :
      \E r \in {processPacket(pkt, bitrate)} :
        LET checked == pkt.pid \in r.clear_pids /\ pkt.clear
        IN  /\ cl_hist.idx < MaxPkts
            /\ abort' = r.abort
            /\ service' = r.service
            /\ clear_pids' = r.clear_pids
            /\ demux_pids' = r.demux_pids
            /\ pass_packets' = r.pass_packets
            /\ last_clear_pkt' = r.last_clear_pkt
            /\ drop_after' = r.drop_after
            /\ current_pkt' = r.current_pkt
            /\ cl_hist' = [idx |-> cl_hist.idx + 1,
                           status |-> r.status,
                           checked |-> checked,
                           previous_pass |-> pass_packets,
                           last_clear |-> IF checked THEN cl_hist.idx ELSE cl_hist.last_clear,
                           ended |-> cl_hist.ended \/ r.status = TSP_END,
                           ended_before |-> cl_hist.ended,
                           stopped |-> cl_hist.stopped \/ (pass_packets /\ ~r.pass_packets),
                           second |-> bitrate \div (PKT_SIZE * 8)]
            /\ UNCHANGED <<cl_opt, drop_status, cl_others>>

ClearNext ==
    \/ ClearStart
    \/ ClearProcessPacket

(***************************************************************************)
(* ts::T2MIPlugin                                                          *)
(***************************************************************************)

\* Bounds: the number of outer packets processed after start(), and the number of
\* inner TS packets that one T2-MI packet (a baseband frame) carries.
MaxOuter == 4
MaxBurst == 2

\* PID_NULL, and the PIDs of the outer stream that carry T2-MI.
PID_NULL == 8191
T2MI_PID_1 == 4096
T2MI_PID_2 == 4097
T2MIPids == {T2MI_PID_1, T2MI_PID_2}

\* The PLP's of the model (a PLP id is a uint8_t).
PLPs == {0, 1}

\* The command lines of the model: --extract, --log, --pid (PID_NULL: not given),
\* --plp (-1: not given).
T2MIOptions ==
    [extract : BOOLEAN, log : BOOLEAN, pid : {PID_NULL, T2MI_PID_1}, plp : {-1} \cup PLPs]

\* What an outer packet does in the demux: nothing, the end of a PMT that declares
\* a T2-MI PID, or the end of a T2-MI packet on its PID; the T2-MI packet has a PLP
\* (plp_valid, plp) and, in a baseband frame, carries nts inner TS packets.
OuterPackets ==
    { [kind |-> "other", pid |-> PID_NULL, plp_valid |-> FALSE, plp |-> 0, nts |-> 0] }
    \cup { [kind |-> "pmt", pid |-> p, plp_valid |-> FALSE, plp |-> 0, nts |-> 0] : p \in T2MIPids }
    \cup { [kind |-> "t2mi", pid |-> p, plp_valid |-> FALSE, plp |-> 0, nts |-> 0] : p \in T2MIPids }
    \cup { [kind |-> "t2mi", pid |-> p, plp_valid |-> TRUE, plp |-> l, nts |-> n] :
             p \in T2MIPids, l \in PLPs, n \in 0..MaxBurst }

\* The plugin fields that the demux handlers can change, with the count of the
\* inner TS packets that the demux delivered so far.
T2MIHandlerState ==
    [pid |-> pid, plp |-> plp, plp_valid |-> plp_valid, t2mi_count |-> t2mi_count,
     ts_queue |-> ts_queue, delivered |-> t2_hist.delivered]

\* An inner TS packet: the PLP it comes from and its rank among the delivered ones.
InnerPacket(l, n) == [inner |-> TRUE, plp |-> l, seq |-> n]

\* An outer TS packet, the n-th one of the stream.
OuterPacket(n) == [inner |-> FALSE, plp |-> -1, seq |-> n]

\* T2MIPlugin::handleT2MINewPID
handleT2MINewPID(st, p) ==
    IF st.pid = PID_NULL /\ p # PID_NULL THEN [st EXCEPT !.pid = p] ELSE st

\* Mutant of handleT2MIPacket: the PLP of every T2-MI packet becomes the selected one.
handleT2MIPacket_FollowLast(st, pkt) ==
    IF extract /\ pkt.plp_valid
    THEN [st EXCEPT !.plp = pkt.plp, !.plp_valid = TRUE, !.t2mi_count = st.t2mi_count + 1]
    ELSE st
\* T2MIPlugin::handleT2MIPacket
handleT2MIPacket(st, pkt) ==
    IF extract /\ pkt.plp_valid
    THEN LET sel == IF ~st.plp_valid THEN pkt.plp ELSE st.plp
         IN  [st EXCEPT !.plp = sel, !.plp_valid = TRUE,
                        !.t2mi_count = IF pkt.plp = sel THEN st.t2mi_count + 1 ELSE st.t2mi_count]
    ELSE st

\* Mutant of handleTSPacket: the PLP of the T2-MI packet is not compared.
handleTSPacket_AnyPLP(st, t2mi, ts) ==
    IF ~extract THEN st ELSE [st EXCEPT !.ts_queue = Append(st.ts_queue, ts)]

\* Mutant of handleTSPacket: the packet is pushed at the front of the queue.
handleTSPacket_PushFront(st, t2mi, ts) ==
    IF ~extract THEN st
    ELSE IF t2mi.plp = st.plp THEN [st EXCEPT !.ts_queue = <<ts>> \o st.ts_queue]
    ELSE st

\* T2MIPlugin::handleTSPacket
handleTSPacket(st, t2mi, ts) ==
    IF ~extract THEN st
    ELSE IF t2mi.plp = st.plp THEN [st EXCEPT !.ts_queue = Append(st.ts_queue, ts)]
    ELSE st

\* T2MIDemux: the inner TS packets of a baseband frame go to handleTSPacket in order.
RECURSIVE deliverTS(_, _, _)
deliverTS(st, t2mi, n) ==
    IF n = 0 THEN st
    ELSE LET ts == InnerPacket(t2mi.plp, st.delivered + 1)
         IN  deliverTS([handleTSPacket(st, t2mi, ts) EXCEPT !.delivered = st.delivered + 1], t2mi, n - 1)

\* T2MIDemux::feedPacket: a PMT declaring a T2-MI PID goes to handleT2MINewPID; the
\* T2-MI packets of the filtered PID go to handleT2MIPacket, then their inner TS
\* packets to handleTSPacket.
t2miFeedPacket(st, pkt) ==
    IF pkt.kind = "pmt" THEN handleT2MINewPID(st, pkt.pid)
    ELSE IF pkt.kind = "t2mi" /\ pkt.pid = st.pid
    THEN deliverTS(handleT2MIPacket(st, pkt), pkt, pkt.nts)
    ELSE st

\* History of the run: n is the number of outer packets processed since start(), out
\* the forwarded packets in order, delivered the number of inner TS packets that the
\* demux delivered, selected the number of those that came from the selected PLP,
\* stopped tells that the outer stream has ended (stop() was called).
\* first is the PLP of the first T2-MI packet with a valid PLP that the demux gave
\* to the plugin since start() (-1: none yet).
T2MINoHist ==
    [n |-> 0, out |-> <<>>, delivered |-> 0, selected |-> 0, stopped |-> FALSE, first |-> -1]

\* T2MIPlugin::start for the command line opt
T2MIStarted(opt) ==
    /\ t2_opt = opt
    /\ extract = (opt.extract \/ ~opt.log)
    /\ log = opt.log
    /\ pid = opt.pid
    /\ plp = (IF opt.plp = -1 THEN 0 ELSE opt.plp)
    /\ plp_valid = (opt.plp # -1)
    /\ ts_queue = <<>>
    /\ t2mi_count = 0
    /\ ts_count = 0
    /\ t2_hist = T2MINoHist

\* The plugin is created and started with a command line of opts.
T2MICreated(opts) == \E opt \in opts : T2MIStarted(opt)

\* T2MIPlugin::start, called again with the same command line.
T2MIStart ==
    /\ t2_hist.stopped
    /\ extract' = (t2_opt.extract \/ ~t2_opt.log)
    /\ log' = t2_opt.log
    /\ pid' = t2_opt.pid
    /\ plp' = (IF t2_opt.plp = -1 THEN 0 ELSE t2_opt.plp)
    /\ plp_valid' = (t2_opt.plp # -1)
    /\ ts_queue' = <<>>
    /\ t2mi_count' = 0
    /\ ts_count' = 0
    /\ t2_hist' = T2MINoHist
    /\ UNCHANGED <<t2_opt, t2_others>>

\* T2MIPlugin::stop: the outer stream has ended.
T2MIStop ==
    /\ ~t2_hist.stopped
    /\ t2_hist.n > 0
    /\ t2_hist' = [t2_hist EXCEPT !.stopped = TRUE]
    /\ UNCHANGED <<t2_opt, extract, log, pid, plp, plp_valid, ts_queue, t2mi_count, ts_count, t2_others>>

\* T2MIPlugin::processPacket on the next packet of the outer stream.
T2MIProcessPacket ==
    \E pkt \in OuterPackets :
      \E fed \in {t2miFeedPacket(T2MIHandlerState, pkt)} :
       LET sel == IF fed.plp_valid /\ pkt.plp_valid /\ pkt.plp = fed.plp
                  THEN t2_hist.selected + (fed.delivered - t2_hist.delivered)
                  ELSE t2_hist.selected
           fst == IF t2_hist.first = -1 /\ pkt.kind = "t2mi" /\ pkt.pid = pid /\ pkt.plp_valid
                  THEN pkt.plp
                  ELSE t2_hist.first
       IN
        /\ ~t2_hist.stopped
        /\ t2_hist.n < MaxOuter
        /\ pid' = fed.pid
        /\ plp' = fed.plp
        /\ plp_valid' = fed.plp_valid
        /\ t2mi_count' = fed.t2mi_count
        /\ IF ~extract
           THEN \* TSP_OK, the packet is unchanged
                /\ ts_queue' = fed.ts_queue
                /\ ts_count' = ts_count
                /\ t2_hist' = [t2_hist EXCEPT !.n = @ + 1, !.delivered = fed.delivered,
                                              !.selected = sel, !.first = fst,
                                              !.out = Append(@, OuterPacket(t2_hist.n))]
           ELSE IF fed.ts_queue = <<>>
           THEN \* TSP_DROP
                /\ ts_queue' = fed.ts_queue
                /\ ts_count' = ts_count
                /\ t2_hist' = [t2_hist EXCEPT !.n = @ + 1, !.delivered = fed.delivered,
                                              !.selected = sel, !.first = fst]
           ELSE \* TSP_OK, the packet is replaced by the front of the queue
                /\ ts_queue' = Tail(fed.ts_queue)
                /\ ts_count' = ts_count + 1
                /\ t2_hist' = [t2_hist EXCEPT !.n = @ + 1, !.delivered = fed.delivered,
                                              !.selected = sel, !.first = fst,
                                              !.out = Append(@, Head(fed.ts_queue))]
        /\ UNCHANGED <<t2_opt, extract, log, t2_others>>

T2MINext ==
    \/ T2MIStart
    \/ T2MIStop
    \/ T2MIProcessPacket

(***************************************************************************)
(* ts::EIT                                                                 *)
(***************************************************************************)

\* Bounds: the number of events of an EIT, the number of descriptors of an EIT
\* (all events together), the number of event entries of a received binary table.
MaxEvents == 2
MaxEITDescs == 5
MaxBinEntries == 2

\* Size in bytes of the payload of a long section, of the part of an EIT payload
\* that is the same in all sections, and of the fixed part of an event.
MAX_PSI_LONG_SECTION_PAYLOAD_SIZE == 1012
EIT_FIXED_SIZE == 6
EVENT_FIXED_SIZE == 12

\* The descriptors of the events: a short_event_descriptor of 257 bytes (the largest
\* descriptor) and an extended_event_descriptor of 223 bytes. Three descriptors of
\* 257 bytes and one of 223 bytes fill an event of exactly one section.
\* (tags 77 and 78).
EITDescs == {Desc(77, 255, 0), Desc(78, 221, 0)}

\* Descriptor::size(): the 2-byte header and the payload.
DescSize(d) == d.psize + 2

\* DescriptorList::binarySize()
RECURSIVE binarySize(_)
binarySize(l) == IF l = <<>> THEN 0 ELSE DescSize(l[1].desc) + binarySize(Tail(l))

\* EncodeBCD / DecodeBCD: two decimal digits in one byte.
EncodeBCD(n) == ((n \div 10) % 10) * 16 + (n % 10)
DecodeBCD(b) == (b \div 16) * 10 + (b % 16)

\* EncodeMJD / DecodeMJD on 5 bytes: a 16-bit modified Julian date, then hour, minute
\* and second in BCD. A Time is a day number and a second in the day.
EncodeMJD(t) ==
    << t.mjd \div 256, t.mjd % 256,
       EncodeBCD(t.sec \div 3600), EncodeBCD((t.sec \div 60) % 60), EncodeBCD(t.sec % 60) >>
DecodeMJD(b) ==
    [mjd |-> b[1] * 256 + b[2],
     sec |-> DecodeBCD(b[3]) * 3600 + DecodeBCD(b[4]) * 60 + DecodeBCD(b[5])]

\* EIT::Event values of the model, without the descriptors.
EventHeaders ==
    { [start_time |-> [mjd |-> 58000, sec |-> 45296], duration |-> 5400,
       running_status |-> 4, CA_controlled |-> TRUE],
      [start_time |-> [mjd |-> 57999, sec |-> 86399], duration |-> 359999,
       running_status |-> 1, CA_controlled |-> FALSE] }

\* EIT::Event::Event()
DefaultEvent ==
    [start_time |-> [mjd |-> 0, sec |-> 0], duration |-> 0, running_status |-> 0,
     CA_controlled |-> FALSE, descs |-> <<>>]

\* The event ids of the model.
EventIds == 1..MaxEvents

\* The 12 fixed bytes of an event in a section (EIT::serialize, lines 280-293), without
\* the 12 bits of the length of the descriptor loop: event_id, start time (5 bytes),
\* duration (3 BCD bytes), and the 4 bits running_status, CA_controlled.
EventFixedPart(event_id, event) ==
    [event_id |-> event_id,
     start |-> EncodeMJD(event.start_time),
     dur |-> << EncodeBCD(event.duration \div 3600),
                EncodeBCD((event.duration \div 60) % 60),
                EncodeBCD(event.duration % 60) >>,
     flags |-> (event.running_status * 2 + (IF event.CA_controlled THEN 1 ELSE 0)) % 16]

\* An event entry of a section payload: the fixed part and the descriptor loop.
EventEntry(fixed, loop) == [fixed |-> fixed, loop |-> loop]

RECURSIVE LoopSize(_)
LoopSize(loop) == IF loop = <<>> THEN 0 ELSE DescSize(loop[1]) + LoopSize(Tail(loop))

\* Size in bytes of the payload of a section: the part before the events, then the events.
RECURSIVE EntriesSize(_)
EntriesSize(es) ==
    IF es = <<>> THEN 0 ELSE EVENT_FIXED_SIZE + LoopSize(es[1].loop) + EntriesSize(Tail(es))
PayloadSize(section) == EIT_FIXED_SIZE + EntriesSize(section)

\* Mutant of DescriptorList::serialize: the descriptor that does not fit is skipped.
RECURSIVE serialize_Skip(_, _, _)
serialize_Skip(l, size, start) ==
    IF start > Len(l) THEN [next |-> start, size |-> size, out |-> <<>>]
    ELSE IF DescSize(l[start].desc) > size THEN [next |-> start + 1, size |-> size, out |-> <<>>]
    ELSE LET r == serialize_Skip(l, size - DescSize(l[start].desc), start + 1)
         IN  [r EXCEPT !.out = <<l[start].desc>> \o r.out]

\* DescriptorList::serialize(addr, size, start): the descriptors from start that fit
\* in size bytes are copied; the result is the index of the first one that is not
\* (1-based here), with the remaining size and the bytes written.
RECURSIVE serialize(_, _, _)
serialize(l, size, start) ==
    IF start > Len(l) \/ DescSize(l[start].desc) > size
    THEN [next |-> start, size |-> size, out |-> <<>>]
    ELSE LET r == serialize(l, size - DescSize(l[start].desc), start + 1)
         IN  [r EXCEPT !.out = <<l[start].desc>> \o r.out]

\* DescriptorList::lengthSerialize(addr, size, start): 2 bytes of length, then serialize.
lengthSerialize(l, size, start) == serialize(l, size - 2, start)

\* EIT::addSection: the payload built so far becomes a section of the table, and
\* the payload restarts after its constant part. A serialization in progress is
\* [table, data, remain]: the sections added, the event entries of the payload being
\* built (after its first 6 bytes), the bytes left in it.
addSection(sz) ==
    [table |-> Append(sz.table, sz.data),
     data |-> <<>>,
     remain |-> sz.remain + EntriesSize(sz.data)]

\* Mutant of the test of EIT::serialize, line 272: a new section is never opened
\* before the event.
OpenSectionFirst_Never(starting, event, remain) == FALSE

\* EIT::serialize, line 272: the event description starts and does not fit.
OpenSectionFirst(starting, event, remain) ==
    starting /\ EVENT_FIXED_SIZE + binarySize(event.descs) > remain

\* EIT::serialize, lines 266-300: the loop on the descriptors of one event.
RECURSIVE serializeEventLoop(_, _, _, _, _)
serializeEventLoop(sz, event_id, event, starting, start_index) ==
    IF ~(starting \/ start_index <= Len(event.descs)) THEN sz
    ELSE LET s1 == IF OpenSectionFirst(starting, event, sz.remain) THEN addSection(sz) ELSE sz
             r == lengthSerialize(event.descs, s1.remain - 10, start_index)
             s2 == [s1 EXCEPT !.data = Append(s1.data, EventEntry(EventFixedPart(event_id, event), r.out)),
                              !.remain = r.size]
             s3 == IF r.next <= Len(event.descs) THEN addSection(s2) ELSE s2
         IN  serializeEventLoop(s3, event_id, event, FALSE, r.next)

\* EIT::serialize, lines 249-301: the loop on the events from event_id on, in the
\* order of the map (increasing event ids).
RECURSIVE serializeEvents(_, _, _)
serializeEvents(sz, evs, event_id) ==
    IF event_id > MaxEvents + 1 THEN sz
    ELSE IF event_id \notin DOMAIN evs THEN serializeEvents(sz, evs, event_id + 1)
    ELSE LET s1 == IF sz.remain < EVENT_FIXED_SIZE THEN addSection(sz) ELSE sz
         IN  serializeEvents(serializeEventLoop(s1, event_id, evs[event_id], TRUE, 1), evs, event_id + 1)

\* EIT::serialize: the sections of the binary table, each one the sequence of the
\* event entries of its payload.
serializeEIT(valid, evs) ==
    IF ~valid THEN <<>>
    ELSE LET sz == serializeEvents([table |-> <<>>, data |-> <<>>,
                                    remain |-> MAX_PSI_LONG_SECTION_PAYLOAD_SIZE - EIT_FIXED_SIZE],
                                   evs, 1)
         IN  IF sz.data # <<>> \/ sz.table = <<>> THEN addSection(sz).table ELSE sz.table

\* DescriptorList::add(const void* data, size_t size): the complete descriptors of
\* the loop are added; the loop of add() ends, without any report, at the end of
\* the area or at a descriptor whose declared length exceeds the remaining bytes.
RECURSIVE addLoop(_, _)
addLoop(l, loop) == IF loop = <<>> THEN l ELSE addLoop(add(l, loop[1]), Tail(loop))

\* EIT::deserialize, lines 194-213: one event entry of a section payload.
deserializeEntry(evs, entry) ==
    LET event_id == entry.fixed.event_id
        old == IF event_id \in DOMAIN evs THEN evs[event_id] ELSE DefaultEvent
        new == [start_time |-> DecodeMJD(entry.fixed.start),
                duration |-> DecodeBCD(entry.fixed.dur[1]) * 3600 + DecodeBCD(entry.fixed.dur[2]) * 60
                             + DecodeBCD(entry.fixed.dur[3]),
                running_status |-> (entry.fixed.flags \div 2) % 8,
                CA_controlled |-> entry.fixed.flags % 2 = 1,
                descs |-> addLoop(old.descs, entry.loop)]
    IN  [i \in DOMAIN evs \cup {event_id} |-> IF i = event_id THEN new ELSE evs[i]]

\* EIT::deserialize: the events of a valid binary table, section after section.
RECURSIVE deserializeEntries(_, _)
deserializeEntries(evs, entries) ==
    IF entries = <<>> THEN evs
    ELSE deserializeEntries(deserializeEntry(evs, entries[1]), Tail(entries))

RECURSIVE deserializeEIT(_, _)
deserializeEIT(evs, sections) ==
    IF sections = <<>> THEN evs
    ELSE deserializeEIT(deserializeEntries(evs, sections[1]), Tail(sections))

\* An EIT without event: a function with an empty domain.
NoEvents == [i \in {} |-> DefaultEvent]

\* The number of descriptors of the events of an EIT.
RECURSIVE CountDescs(_, _)
CountDescs(evs, event_id) ==
    IF event_id > MaxEvents + 1 THEN 0
    ELSE (IF event_id \in DOMAIN evs THEN Len(evs[event_id].descs) ELSE 0) + CountDescs(evs, event_id + 1)

\* The well-formed binary EIT's that are received: at most MaxBinEntries events
\* with distinct event ids, in any order, in one section or in one section each.
BinEntries ==
    { EventEntry(EventFixedPart(i, h), loop) :
        i \in EventIds, h \in EventHeaders,
        loop \in {<<>>} \cup {<<d>> : d \in EITDescs} }
BinEntrySeqs ==
    { s \in UNION { [1..n -> BinEntries] : n \in 0..MaxBinEntries } :
        \A i \in DOMAIN s : \A j \in DOMAIN s : i # j => s[i].fixed.event_id # s[j].fixed.event_id }
BinTables ==
    { <<s>> : s \in BinEntrySeqs }
    \cup { [i \in DOMAIN s |-> <<s[i]>>] : s \in {x \in BinEntrySeqs : Len(x) >= 2} }

\* An event entry whose descriptor loop ends with a truncated descriptor: its
\* header declares more bytes than the `present` bytes that remain in the loop.
TruncatedEntry(fixed, loop, d, present) ==
    [fixed |-> fixed, loop |-> loop, trunc |-> [desc |-> d, present |-> present]]

\* Binary EIT's of one section with one event and a truncated descriptor.
TruncatedTables ==
    { << <<TruncatedEntry(EventFixedPart(i, h), loop, Desc(77, 255, 0), 10)>> >> :
        i \in EventIds, h \in EventHeaders,
        loop \in {<<>>} \cup {<<d>> : d \in EITDescs} }

\* EIT::EIT(): a valid EIT without event, nothing received, nothing serialized.
EITCreated ==
    /\ events = NoEvents
    /\ is_valid = TRUE
    /\ eit_bin = <<>>
    /\ eit_out = <<>>
    /\ eit_phase = "typed"

\* events[event_id] = ... : the application adds an event to the EIT.
EITAddEvent ==
    \E event_id \in EventIds, h \in EventHeaders :
        /\ eit_phase = "typed"
        /\ event_id \notin DOMAIN events
        /\ events' = [i \in DOMAIN events \cup {event_id} |->
                        IF i = event_id
                        THEN [start_time |-> h.start_time, duration |-> h.duration,
                              running_status |-> h.running_status,
                              CA_controlled |-> h.CA_controlled, descs |-> <<>>]
                        ELSE events[i]]
        /\ UNCHANGED <<is_valid, eit_bin, eit_out, eit_phase, eit_others>>

\* events[event_id].descs.add(...) : the application adds a descriptor to an event.
EITAddDescriptor ==
    \E event_id \in DOMAIN events, d \in EITDescs :
        /\ eit_phase = "typed"
        /\ CountDescs(events, 1) < MaxEITDescs
        /\ events' = [events EXCEPT ![event_id].descs = add(@, d)]
        /\ UNCHANGED <<is_valid, eit_bin, eit_out, eit_phase, eit_others>>

\* A binary table is received.
EITReceive ==
    \E b \in BinTables \cup TruncatedTables :
        /\ eit_phase = "typed"
        /\ events = NoEvents
        /\ eit_bin' = b
        /\ eit_phase' = "received"
        /\ UNCHANGED <<events, is_valid, eit_out, eit_others>>

\* EIT::deserialize of the received table (a valid table with an EIT table id).
EITDeserialize ==
    /\ eit_phase = "received"
    /\ events' = deserializeEIT(NoEvents, eit_bin)
    /\ is_valid' = TRUE
    /\ eit_phase' = "decoded"
    /\ UNCHANGED <<eit_bin, eit_out, eit_others>>

\* EIT::serialize
EITSerialize ==
    /\ eit_phase \in {"typed", "decoded"}
    /\ eit_out' = serializeEIT(is_valid, events)
    /\ eit_phase' = (IF eit_phase = "decoded" THEN "reserialized" ELSE "serialized")
    /\ UNCHANGED <<events, is_valid, eit_bin, eit_others>>

EITNext ==
    \/ EITAddEvent
    \/ EITAddDescriptor
    \/ EITReceive
    \/ EITDeserialize
    \/ EITSerialize

(***************************************************************************)
(* ts::PCRVerifyPlugin                                                     *)
(***************************************************************************)

\* The 64-bit integers of the plugin (int64_t, uint64_t) are sequences of 8
\* bytes, least significant byte first, in two's complement: the operations
\* wrap modulo 2^64 as the machine ones do. The same operations on longer
\* sequences compute on wider integers.
FromInt(v, n) == [i \in 1..n |-> IF i <= 4 THEN (v \div (256 ^ (i - 1))) % 256 ELSE 0]
Int64(v) == FromInt(v, 8)

RECURSIVE AddFrom(_, _, _, _)
AddFrom(a, b, i, carry) ==
    IF i > Len(a) THEN <<>>
    ELSE <<(a[i] + b[i] + carry) % 256>> \o AddFrom(a, b, i + 1, (a[i] + b[i] + carry) \div 256)

\* a + b
WAdd(a, b) == AddFrom(a, b, 1, 0)

\* -a
WNeg(a) == WAdd([i \in DOMAIN a |-> 255 - a[i]], FromInt(1, Len(a)))

\* a - b
WSub(a, b) == WAdd(a, WNeg(b))

RECURSIVE ColSum(_, _, _, _)
ColSum(a, b, k, i) == IF i > k THEN 0 ELSE a[i] * b[k + 1 - i] + ColSum(a, b, k, i + 1)

RECURSIVE MulFrom(_, _, _, _)
MulFrom(a, b, k, carry) ==
    IF k > Len(a) THEN <<>>
    ELSE LET s == ColSum(a, b, k, 1) + carry
         IN  <<s % 256>> \o MulFrom(a, b, k + 1, s \div 256)

\* a * b
WMul(a, b) == MulFrom(a, b, 1, 0)

\* a < 0
WNegative(a) == a[Len(a)] >= 128

\* Unsigned a / r, for 0 < r < 2^23: long division, most significant byte first.
RECURSIVE UDivFrom(_, _, _, _)
UDivFrom(a, r, i, rem) ==
    IF i = 0 THEN <<>>
    ELSE UDivFrom(a, r, i - 1, (rem * 256 + a[i]) % r) \o <<(rem * 256 + a[i]) \div r>>

\* Signed a / r, for 0 < r < 2^23: the quotient is truncated toward zero.
WDiv(a, r) ==
    IF WNegative(a) THEN WNeg(UDivFrom(WNeg(a), r, Len(a), 0)) ELSE UDivFrom(a, r, Len(a), 0)

RECURSIVE ULeFrom(_, _, _)
ULeFrom(a, b, i) ==
    IF i = 0 THEN TRUE ELSE IF a[i] # b[i] THEN a[i] < b[i] ELSE ULeFrom(a, b, i - 1)

\* Signed a <= b
WLe(a, b) == IF WNegative(a) # WNegative(b) THEN WNegative(a) ELSE ULeFrom(a, b, Len(a))

\* The signed integer a on n bytes.
SignExtend(a, n) ==
    [i \in 1..n |-> IF i <= Len(a) THEN a[i] ELSE IF WNegative(a) THEN 255 ELSE 0]

SYSTEM_CLOCK_FREQ == 27000000
PCR_PER_MICRO_SEC == 27
DEFAULT_JITTER_MAX_US == 1000

\* jitter(pcr1, pkt1, pcr2, pkt2, bitrate), in int64_t; the bitrate is a number,
\* the other arguments are 64-bit integers. An overflow of the signed
\* operations wraps modulo 2^64, which is what the builds of the plugin do.
jitter(pcr1, pkt1, pcr2, pkt2, rate) ==
    IF rate = 0 THEN Int64(0)
    ELSE WDiv(WSub(WMul(Int64(rate), WSub(pcr2, pcr1)),
                   WMul(WMul(WMul(WSub(pkt2, pkt1), Int64(PKT_SIZE)), Int64(8)),
                        Int64(SYSTEM_CLOCK_FREQ))),
              rate)

\* Bound: the number of packets of a run of the plugin.
MaxVerifyPkts == 3

\* The PID's of the model that carry PCR's.
VerifyPids == {VIDEO_PID, AUDIO_PID}

\* The largest PCR value: 2^33 * 300 - 1 (33 bits of base, extension below 300).
PCRMax == WSub(WMul(Int64(1073741824), Int64(2400)), Int64(1))

\* The PCR values of the model. At 8,000,000 b/s, one packet lasts 5076 PCR units.
PCRSamples == {Int64(0), Int64(1000), PCRMax}

\* Command line options: --absolute, --bitrate (0: not given), --jitter-max
\* (-1: not given), --pid (empty: not given).
VerifyOptions ==
    [absolute : BOOLEAN, bitrate : {0, 1000000}, jitter_max : {-1, 50},
     pids : {{}, {VIDEO_PID}}]

\* The bitrates that tsp reports (0: unknown).
TspBitrates == {0, 8000000}

\* The packets of the model: a PID, and a PCR or none.
VerifyPackets ==
    [pid : VerifyPids, has_pcr : {FALSE}, pcr : {Int64(0)}]
    \cup [pid : VerifyPids, has_pcr : {TRUE}, pcr : PCRSamples]

\* PIDContext::PIDContext()
NoPIDContext == [last_pcr_value |-> Int64(0), last_pcr_packet |-> 0]

\* History of a run: the number of PCR's seen on each selected PID since start,
\* and the last PCR that was processed: what was done with it ("unchecked",
\* "ok", "nok"), and the arguments and result of jitter().
VerifyNoHist ==
    [seen |-> [p \in VerifyPids |-> 0], kind |-> "none",
     pcr1 |-> Int64(0), pkt1 |-> 0, pcr2 |-> Int64(0), pkt2 |-> 0, rate |-> 0,
     jit |-> Int64(0)]

\* PCRVerifyPlugin::start()
VerifyStarted(opt) ==
    /\ pv_opt' = opt
    /\ absolute' = opt.absolute
    /\ jitter_max' =
         (LET v == IF opt.jitter_max >= 0 THEN opt.jitter_max ELSE DEFAULT_JITTER_MAX_US
                                                                   * (IF opt.absolute THEN PCR_PER_MICRO_SEC ELSE 1)
          IN  IF opt.absolute THEN v ELSE v * PCR_PER_MICRO_SEC)
    /\ pv_bitrate' = opt.bitrate
    /\ pid_list' = (IF opt.pids = {} THEN VerifyPids ELSE opt.pids)
    /\ packet_count' = 0
    /\ nb_pcr_ok' = 0
    /\ nb_pcr_nok' = 0
    /\ nb_pcr_unchecked' = 0
    /\ stats' = [p \in VerifyPids |-> NoPIDContext]
    /\ pv_hist' = VerifyNoHist

\* The plugin after its construction and start() with one of the command lines.
VerifyCreated(opts) ==
    /\ pv_opt \in opts
    /\ absolute = pv_opt.absolute
    /\ jitter_max =
         (LET v == IF pv_opt.jitter_max >= 0 THEN pv_opt.jitter_max ELSE DEFAULT_JITTER_MAX_US
                                                                   * (IF pv_opt.absolute THEN PCR_PER_MICRO_SEC ELSE 1)
          IN  IF pv_opt.absolute THEN v ELSE v * PCR_PER_MICRO_SEC)
    /\ pv_bitrate = pv_opt.bitrate
    /\ pid_list = (IF pv_opt.pids = {} THEN VerifyPids ELSE pv_opt.pids)
    /\ packet_count = 0
    /\ nb_pcr_ok = 0
    /\ nb_pcr_nok = 0
    /\ nb_pcr_unchecked = 0
    /\ stats = [p \in VerifyPids |-> NoPIDContext]
    /\ pv_hist = VerifyNoHist

\* PCRVerifyPlugin::processPacket, line 271: no previous PCR on the PID.
NoPreviousPCR(pc) == pc.last_pcr_value = Int64(0)

\* |jit|, as in processPacket, line 284.
AbsJitter(jit) == IF WLe(Int64(0), jit) THEN jit ELSE WNeg(jit)

\* tsp restarts the plugin.
VerifyStart ==
    /\ packet_count > 0
    /\ VerifyStarted(pv_opt)
    /\ UNCHANGED pv_others

\* PCRVerifyPlugin::processPacket
VerifyProcessPacket ==
    \E pkt \in VerifyPackets, tsp_bitrate \in TspBitrates :
        /\ packet_count < MaxVerifyPkts
        /\ pv_bitrate # 0 => tsp_bitrate = 0
        /\ IF pkt.pid \in pid_list /\ pkt.has_pcr
           THEN \E rate \in {IF pv_bitrate # 0 THEN pv_bitrate ELSE tsp_bitrate} :
                \E jit \in {IF NoPreviousPCR(stats[pkt.pid]) THEN Int64(0)
                            ELSE jitter(stats[pkt.pid].last_pcr_value,
                                        Int64(stats[pkt.pid].last_pcr_packet),
                                        pkt.pcr, Int64(packet_count), rate)} :
                \E kind \in {IF NoPreviousPCR(stats[pkt.pid]) THEN "unchecked"
                             ELSE IF WLe(AbsJitter(jit), Int64(jitter_max)) THEN "ok"
                             ELSE "nok"} :
                    /\ nb_pcr_unchecked' = nb_pcr_unchecked + (IF kind = "unchecked" THEN 1 ELSE 0)
                    /\ nb_pcr_ok' = nb_pcr_ok + (IF kind = "ok" THEN 1 ELSE 0)
                    /\ nb_pcr_nok' = nb_pcr_nok + (IF kind = "nok" THEN 1 ELSE 0)
                    /\ stats' = [stats EXCEPT ![pkt.pid] =
                                    [last_pcr_value |-> pkt.pcr, last_pcr_packet |-> packet_count]]
                    /\ pv_hist' = [seen |-> [pv_hist.seen EXCEPT ![pkt.pid] = @ + 1],
                                   kind |-> kind,
                                   pcr1 |-> stats[pkt.pid].last_pcr_value,
                                   pkt1 |-> stats[pkt.pid].last_pcr_packet,
                                   pcr2 |-> pkt.pcr, pkt2 |-> packet_count,
                                   rate |-> rate,
                                   jit |-> jit]
           ELSE /\ tsp_bitrate = 0
                /\ pkt.pcr = Int64(0)
                /\ UNCHANGED <<nb_pcr_unchecked, nb_pcr_ok, nb_pcr_nok, stats>>
                /\ pv_hist' = [pv_hist EXCEPT !.kind = "none"]
        /\ packet_count' = packet_count + 1
        /\ UNCHANGED <<pv_opt, absolute, jitter_max, pv_bitrate, pid_list, pv_others>>

VerifyNext ==
    \/ VerifyStart
    \/ VerifyProcessPacket

(***************************************************************************)
(* ts::PMTPlugin                                                           *)
(***************************************************************************)

\* Bound: the number of PMT's that a run of the plugin modifies.
MaxPMTs == 2

ST_PES_PRIV == 6
ST_AC3_AUDIO == 129
ST_EAC3_AUDIO == 135
DID_STREAM_ID == 82
DID_AC3 == 106
DID_ENHANCED_AC3 == 122

\* std::bitset<256> ctags: the component tags are 0..255.
ComponentTags == 0..255

\* The binary descriptors of the model: a stream_identifier_descriptor with a
\* component tag, one without payload (not valid as StreamIdentifierDescriptor),
\* the descriptor of AC3Descriptor() and of EnhancedAC3Descriptor() (one byte of
\* flags), a private descriptor and a private_data_specifier_descriptor.
StreamIdDesc(ctag) == Desc(DID_STREAM_ID, 1, ctag)
BadStreamIdDesc == Desc(DID_STREAM_ID, 0, 0)
AC3Desc == Desc(DID_AC3, 1, 0)
EAC3Desc == Desc(DID_ENHANCED_AC3, 1, 0)
PrivateDesc == Desc(DID_PRIVATE_MIN, 0, 0)
PDSDesc == Desc(DID_PRIV_DATA_SPECIF, 4, 1)

\* DescriptorList::search(tag, start_index), without PDS: a 0-based index, or count().
search(l, tag, start_index) ==
    LET found == {index \in start_index..(Len(l) - 1) : l[index + 1].desc.tag = tag}
    IN  IF found = {} THEN Len(l) ELSE MinOf(found)

\* A component of a PMT (PMT::Stream), from its stream type and its descriptor loop.
Stream(stream_type, loop) == [stream_type |-> stream_type, descs |-> addLoop(<<>>, loop)]

\* The PID's of the components of the model, and the PMT's that are given to the
\* plugin: PMT's of service 1 with two or three components or with one audio
\* component, a PMT of service 2 with a private program-level descriptor, and a
\* PMT where a component carries the 256 component tags.
StreamPids == {VIDEO_PID, AUDIO_PID, AUDIO_PID + 1}
VideoStreams ==
    { Stream(2, loop) : loop \in {<<>>, <<StreamIdDesc(0)>>, <<BadStreamIdDesc>>, <<PrivateDesc, PrivateDesc>>} }
AudioStreams ==
    { Stream(ST_AC3_AUDIO, loop) :
        loop \in {<<>>, <<AC3Desc>>, <<StreamIdDesc(1), AC3Desc>>, <<PDSDesc, PrivateDesc>>} }
    \cup { Stream(ST_EAC3_AUDIO, <<>>), Stream(ST_PES_PRIV, <<StreamIdDesc(0)>>) }
OtherStreams == { Stream(4, <<>>), Stream(ST_AC3_AUDIO, <<StreamIdDesc(2), StreamIdDesc(0)>>) }

\* A component that carries the 256 component tags, in 256 descriptors (the list
\* that add() builds from them: no private data specifier).
AllTagsStream ==
    [stream_type |-> 2, descs |-> [i \in 1..256 |-> [desc |-> StreamIdDesc(i - 1), pds |-> 0]]]

PluginPMT(service_id, descs, streams) ==
    [service_id |-> service_id, descs |-> descs, streams |-> streams]

PMTInputs ==
    { PluginPMT(1, <<>>, (VIDEO_PID :> v) @@ (AUDIO_PID :> a)) : v \in VideoStreams, a \in AudioStreams }
    \cup { PluginPMT(1, <<>>, (VIDEO_PID :> v) @@ (AUDIO_PID :> a) @@ (AUDIO_PID + 1 :> o)) :
             v \in {Stream(2, <<>>), Stream(2, <<StreamIdDesc(0)>>)},
             a \in {Stream(ST_AC3_AUDIO, <<>>), Stream(ST_AC3_AUDIO, <<StreamIdDesc(1), AC3Desc>>)},
             o \in OtherStreams }
    \cup { PluginPMT(2, addLoop(<<>>, <<PrivateDesc>>),
                     (VIDEO_PID :> Stream(2, <<>>)) @@ (AUDIO_PID :> Stream(ST_AC3_AUDIO, <<>>))) }
    \cup { PluginPMT(1, <<>>, [p \in {AUDIO_PID} |-> a]) :
             a \in {Stream(ST_AC3_AUDIO, <<>>), Stream(ST_EAC3_AUDIO, <<>>)} }
    \cup { PluginPMT(1, <<>>, (VIDEO_PID :> AllTagsStream) @@ (AUDIO_PID :> Stream(ST_AC3_AUDIO, <<>>))) }

\* The PAT's that are given to the plugin (PAT::pmts: service id -> PMT PID).
PluginPATs == { [i \in {} |-> 0], (1 :> PMT_PID_1), (1 :> PMT_PID_1) @@ (2 :> PMT_PID_2) }

\* Command line options: --pmt-pid (0: not given), --ac3-atsc2dvb, --eac3-atsc2dvb,
\* --cleanup-private-descriptors, --add-stream-identifier, and the --move-pid
\* options (_moved_pid: old PID -> new PID). The other options are not given.
\* A PID that no PMT of the model has.
FreePid == AUDIO_PID + 2
\* The sets of --move-pid options of the model: to a free PID, to the PID of
\* another component, two moves in a chain, two moves to free PID's, a move of a
\* PID onto itself, a move of a PID that is not in the PMT.
MovedPids ==
    { (VIDEO_PID :> FreePid),
      (VIDEO_PID :> AUDIO_PID),
      (VIDEO_PID :> AUDIO_PID) @@ (AUDIO_PID :> FreePid),
      (VIDEO_PID :> FreePid) @@ (AUDIO_PID :> FreePid + 1),
      (VIDEO_PID :> VIDEO_PID),
      (FreePid :> FreePid + 1) }
NoMovedPid == [p \in {} |-> 0]
PMTPluginOptions ==
    [pmt_pid : {0, PMT_PID_1}, ac3_atsc2dvb : BOOLEAN, eac3_atsc2dvb : BOOLEAN,
     cleanup_priv_desc : BOOLEAN, add_stream_id : BOOLEAN, moved_pid : {NoMovedPid}]
    \cup [pmt_pid : {0, PMT_PID_1}, ac3_atsc2dvb : {FALSE}, eac3_atsc2dvb : {FALSE},
          cleanup_priv_desc : {FALSE}, add_stream_id : {FALSE}, moved_pid : MovedPids]

\* The streams of a PMT after a change of the components in a set of PID's.
MapStreams(streams, F(_)) == [p \in DOMAIN streams |-> F(streams[p])]

\* Mutant of the test of handleTable, line 476: an AC-3_descriptor is always added.
AC3DescriptorMissing_Always(descs) == TRUE

\* PMTPlugin::handleTable, line 476: no AC-3_descriptor in the component.
AC3DescriptorMissing(descs) == search(descs, DID_AC3, 0) = Len(descs)

\* PMTPlugin::handleTable, lines 471-482: AC-3 signaling from ATSC to DVB.
ac3Atsc2Dvb(stream) ==
    IF stream.stream_type = ST_AC3_AUDIO
    THEN [stream_type |-> ST_PES_PRIV,
          descs |-> IF AC3DescriptorMissing(stream.descs) THEN add(stream.descs, AC3Desc)
                    ELSE stream.descs]
    ELSE stream

\* PMTPlugin::handleTable, lines 483-494: Enhanced-AC-3 signaling from ATSC to DVB.
eac3Atsc2Dvb(stream) ==
    IF stream.stream_type = ST_EAC3_AUDIO
    THEN [stream_type |-> ST_PES_PRIV,
          descs |-> IF search(stream.descs, DID_ENHANCED_AC3, 0) = Len(stream.descs)
                    THEN add(stream.descs, EAC3Desc)
                    ELSE stream.descs]
    ELSE stream

\* PMTPlugin::handleTable, lines 498-500: cleanup of the descriptors of a component.
cleanupStream(stream) ==
    [stream EXCEPT !.descs = removeInvalidPrivateDescriptors(@).list]

\* PMTPlugin::handleTable, lines 506-514: the component tags of the valid
\* stream_identifier_descriptors (one byte of payload) of the components.
collectTags(streams) ==
    { streams[p].descs[i].desc.val :
        <<p, i>> \in { x \in (DOMAIN streams) \X (1..257) :
                         /\ x[2] \in DOMAIN streams[x[1]].descs
                         /\ streams[x[1]].descs[x[2]].desc.tag = DID_STREAM_ID
                         /\ streams[x[1]].descs[x[2]].desc.psize = 1 } }

\* Mutant of the allocation of a component tag: the tag is not marked as used.
newTags_NoSet(ctags, ctag) == ctags

\* PMTPlugin::handleTable, line 528: ctags.set(i).
newTags(ctags, ctag) == ctags \cup {ctag}

\* PMTPlugin::handleTable, lines 516-533: the components from PID pid_from on, in
\* the order of the map. A component without stream_identifier_descriptor gets
\* one with the first component tag that is not in ctags; when the 256 tags are
\* used, the new descriptor has the tag of StreamIdentifierDescriptor() (0).
RECURSIVE addStreamIds(_, _, _)
addStreamIds(streams, todo, ctags) ==
    IF todo = {} THEN streams
    ELSE LET p == MinOf(todo)
             dlist == streams[p].descs
             free == ComponentTags \ ctags
         IN  IF search(dlist, DID_STREAM_ID, 0) < Len(dlist)
             THEN addStreamIds(streams, todo \ {p}, ctags)
             ELSE IF free = {}
             THEN addStreamIds([streams EXCEPT ![p].descs = add(dlist, StreamIdDesc(0))],
                               todo \ {p}, ctags)
             ELSE addStreamIds([streams EXCEPT ![p].descs = add(dlist, StreamIdDesc(MinOf(free)))],
                               todo \ {p}, newTags(ctags, MinOf(free)))

\* PMTPlugin::handleTable, lines 458-461: pmt.streams[new] = pmt.streams[old], then
\* pmt.streams.erase(old), when the component old exists and old != new.
moveStream(streams, old, new) ==
    IF old # new /\ old \in DOMAIN streams
    THEN [p \in (DOMAIN streams \ {old}) \cup {new} |-> IF p = new THEN streams[old] ELSE streams[p]]
    ELSE streams
\* PMTPlugin::handleTable, lines 456-463: the moves of _moved_pid, from the old PID
\* pid_from on, in the order of the map.
RECURSIVE movePids(_, _, _)
movePids(streams, moved, todo) ==
    IF todo = {} THEN streams
    ELSE movePids(moveStream(streams, MinOf(todo), moved[MinOf(todo)]), moved, todo \ {MinOf(todo)})
\* PMTPlugin::handleTable, case TID_PMT, lines 423-538: the modified PMT.
modifyPMT(opt, pmt) ==
    LET s0 == movePids(pmt.streams, opt.moved_pid, DOMAIN opt.moved_pid)
        s1 == IF opt.ac3_atsc2dvb THEN MapStreams(s0, ac3Atsc2Dvb) ELSE s0
        s2 == IF opt.eac3_atsc2dvb THEN MapStreams(s1, eac3Atsc2Dvb) ELSE s1
        d3 == IF opt.cleanup_priv_desc THEN removeInvalidPrivateDescriptors(pmt.descs).list
              ELSE pmt.descs
        s3 == IF opt.cleanup_priv_desc THEN MapStreams(s2, cleanupStream) ELSE s2
        s4 == IF opt.add_stream_id THEN addStreamIds(s3, DOMAIN s3, collectTags(s3)) ELSE s3
    IN  PluginPMT(pmt.service_id, d3, s4)

NoPMT == PluginPMT(0, <<>>, [p \in {} |-> 0])
\* The PID's of the packets that are given to the plugin.
PMTPacketPids == {PID_PAT, PMT_PID_1, PMT_PID_2, VIDEO_PID}
\* No packet was processed since start().
PMTNoHist ==
    [pid |-> PID_NULL, status |-> "none", out |-> "none", ended |-> FALSE, ended_before |-> FALSE]
\* Service::hasPMTPID(pid)
hasPMTPID(svc, p) == svc.pmt_pid # 0 /\ svc.pmt_pid = p
\* Mutant of the end of processPacket: the packets are forwarded while not ready.
PMTPacketStatus_NoReadyTest(ab, rdy, svc, p) ==
    IF ab THEN [pid |-> p, status |-> TSP_END, out |-> "none"]
    ELSE IF hasPMTPID(svc, p) THEN [pid |-> p, status |-> TSP_OK, out |-> "packetizer"]
    ELSE [pid |-> p, status |-> TSP_OK, out |-> "original"]
\* PMTPlugin::processPacket after _demux.feedPacket(), lines 558-573: the returned
\* status and the packet that is forwarded, the original one or the next packet of
\* the packetizer, for a packet of PID p.
PMTPacketStatus(ab, rdy, svc, p) ==
    IF ab THEN [pid |-> p, status |-> TSP_END, out |-> "none"]
    ELSE IF ~rdy THEN [pid |-> p, status |-> TSP_DROP, out |-> "none"]
    ELSE IF hasPMTPID(svc, p) THEN [pid |-> p, status |-> TSP_OK, out |-> "packetizer"]
    ELSE [pid |-> p, status |-> TSP_OK, out |-> "original"]

\* PMTPlugin::start()
PMTPluginStarted(opt) ==
    /\ pm_opt' = opt
    /\ pm_abort' = FALSE
    /\ pm_ready' = (opt.pmt_pid # 0)
    /\ pm_service' = [id |-> 0, pmt_pid |-> opt.pmt_pid]
    /\ pm_in' = NoPMT
    /\ pm_out' = NoPMT
    /\ pm_count' = 0
    /\ pm_hist' = PMTNoHist

\* The history after a call of processPacket with the result r: ended tells that a
\* call returned TSP_END since start(), ended_before that an earlier call did.
PMTHist(r) ==
    [pid |-> r.pid, status |-> r.status, out |-> r.out,
     ended |-> pm_hist.ended \/ r.status = TSP_END, ended_before |-> pm_hist.ended]
\* The plugin after its construction and start() with one of the command lines.
PMTPluginCreated(opts) ==
    /\ pm_opt \in opts
    /\ pm_abort = FALSE
    /\ pm_ready = (pm_opt.pmt_pid # 0)
    /\ pm_service = [id |-> 0, pmt_pid |-> pm_opt.pmt_pid]
    /\ pm_in = NoPMT
    /\ pm_out = NoPMT
    /\ pm_count = 0
    /\ pm_hist = PMTNoHist

\* tsp restarts the plugin.
PMTPluginStart ==
    /\ pm_count > 0 \/ pm_abort
    /\ PMTPluginStarted(pm_opt)
    /\ UNCHANGED pm_others

\* PMTPlugin::processPacket on the packet of PID_PAT that ends a PAT, and
\* PMTPlugin::handleTable, case TID_PAT: the demux filters the PAT until the PMT
\* PID is known. No service is specified: the first one of the PAT is used.
PMTPluginHandlePAT ==
    \E pat \in PluginPATs :
        /\ ~pm_ready /\ ~pm_abort
        /\ IF DOMAIN pat # {}
           THEN /\ pm_service' = [id |-> MinOf(DOMAIN pat), pmt_pid |-> pat[MinOf(DOMAIN pat)]]
                /\ pm_ready' = TRUE
                /\ UNCHANGED pm_abort
           ELSE /\ pm_abort' = TRUE
                /\ UNCHANGED <<pm_service, pm_ready>>
        /\ pm_hist' = PMTHist(PMTPacketStatus(pm_abort', pm_ready', pm_service', PID_PAT))
        /\ UNCHANGED <<pm_opt, pm_in, pm_out, pm_count, pm_others>>

\* PMTPlugin::processPacket on the packet that ends a PMT, and
\* PMTPlugin::handleTable, case TID_PMT: a PMT on the PMT PID of the service (on
\* PMT_PID_2 while the PMT PID is not known).
PMTPluginHandlePMT ==
    \E pmt \in PMTInputs :
        /\ ~pm_abort
        /\ pm_count < MaxPMTs
        /\ IF pm_ready /\ (pm_service.id = 0 \/ pm_service.id = pmt.service_id)
           THEN /\ pm_in' = pmt
                /\ pm_out' = modifyPMT(pm_opt, pmt)
                /\ pm_count' = pm_count + 1
           ELSE /\ pmt.service_id = 2
                /\ UNCHANGED <<pm_in, pm_out, pm_count>>
        /\ pm_hist' = PMTHist(PMTPacketStatus(pm_abort, pm_ready, pm_service,
                                              IF pm_ready THEN pm_service.pmt_pid ELSE PMT_PID_2))
        /\ UNCHANGED <<pm_opt, pm_abort, pm_ready, pm_service, pm_others>>
\* PMTPlugin::processPacket on a packet that ends no table of the demux.
PMTPluginProcessPacket ==
    \E p \in PMTPacketPids :
        /\ pm_hist' = PMTHist(PMTPacketStatus(pm_abort, pm_ready, pm_service, p))
        /\ UNCHANGED <<pm_opt, pm_abort, pm_ready, pm_service, pm_in, pm_out, pm_count, pm_others>>

PMTPluginNext ==
    \/ PMTPluginStart
    \/ PMTPluginHandlePAT
    \/ PMTPluginHandlePMT
    \/ PMTPluginProcessPacket

(***************************************************************************)
(* ts::SIFilterPlugin                                                      *)
(***************************************************************************)

MaxSIPkts == 4

PID_CAT == 1
PID_TSDT == 2
PID_NIT == 16
PID_BAT == 17
PID_EIT == 18
PID_RST == 19
PID_TDT == 20
PID_TOT == 20
ECM_PID == 768
EMM_PID == 769

TID_PAT == 0
TID_CAT == 1
TID_PMT == 2

\* The PID that each table option of start() passes.
TablePID(opt_name) ==
    CASE opt_name = "bat" -> PID_BAT
      [] opt_name = "cat" -> PID_CAT
      [] opt_name = "eit" -> PID_EIT
      [] opt_name = "nit" -> PID_NIT
      [] opt_name = "pat" -> PID_PAT
      [] opt_name = "rst" -> PID_RST
      [] opt_name = "sdt" -> PID_SDT
      [] opt_name = "tdt" -> PID_TDT
      [] opt_name = "tot" -> PID_TOT
      [] opt_name = "tsdt" -> PID_TSDT

TableOptions == {"bat", "cat", "eit", "nit", "pat", "rst", "sdt", "tdt", "tot", "tsdt"}

\* Command lines of the plugin: the table options that are present, --pmt,
\* --stuffing and the CAS selection (--ecm, --emm, --min-cas, --max-cas).
SIFilterOptions ==
    [tables : {{}, {"pat"}, {"cat", "sdt"}, TableOptions},
     pmt : BOOLEAN, stuffing : BOOLEAN, pass_ecm : BOOLEAN, pass_emm : BOOLEAN,
     min_cas_id : {0, 256}, max_cas_id : {511}]

\* A CA_descriptor: the CA system id and the ECM or EMM PID.
CADesc(cas_id, ca_pid) == [cas_id |-> cas_id, ca_pid |-> ca_pid]

\* CASSelectionArgs::casMatch
casMatch(opt, cas) == opt.min_cas_id <= cas /\ cas <= opt.max_cas_id

\* CASSelectionArgs::addMatchingPIDs on the CA_descriptors of a CAT (EMM
\* PID's) or of a PMT (ECM PID's).
addMatchingPIDs(opt, pids, ca_descs, tid) ==
    IF (tid = TID_CAT /\ opt.pass_emm) \/ (tid = TID_PMT /\ opt.pass_ecm)
    THEN pids \cup {ca_descs[i].ca_pid : i \in {j \in DOMAIN ca_descs : casMatch(opt, ca_descs[j].cas_id)}}
    ELSE pids

\* The tables of the transport stream: two successive PAT's that move the
\* service to another PMT PID, CAT's and PMT's with CA_descriptors.
SIPATs == {(1 :> PMT_PID_1), (1 :> PMT_PID_2)}
SICADescs(ca_pid) == {<<>>, <<CADesc(100, ca_pid)>>, <<CADesc(300, ca_pid)>>}

SINoTable == [tid |-> -1]

\* The packets of the transport stream: the PID and the table that this packet
\* completes in its PID, if any.
SIPackets ==
    {[pid |-> p, table |-> SINoTable] :
        p \in {PID_PAT, PID_CAT, PID_SDT, PMT_PID_1, PMT_PID_2, ECM_PID, EMM_PID, VIDEO_PID}}
    \cup {[pid |-> PID_PAT, table |-> [tid |-> TID_PAT, pmts |-> t]] : t \in SIPATs}
    \cup {[pid |-> PID_CAT, table |-> [tid |-> TID_CAT, descs |-> d]] : d \in SICADescs(EMM_PID)}
    \cup {[pid |-> p, table |-> [tid |-> TID_PMT, descs |-> d]] :
             p \in {PMT_PID_1, PMT_PID_2}, d \in SICADescs(ECM_PID)}

RangeOf(f) == {f[x] : x \in DOMAIN f}

SINoHist == [seen |-> 0, pid |-> PID_NULL, status |-> TSP_OK]

\* SIFilterPlugin::start()
SIFilterStarted(opt) ==
    /\ sf_opt' = opt
    /\ sf_pass_pmt' = opt.pmt
    /\ sf_drop_status' = IF opt.stuffing THEN TSP_NULL ELSE TSP_DROP
    /\ sf_pass_pids' = {TablePID(t) : t \in opt.tables}
    /\ sf_demux_pids' = {PID_PAT} \cup (IF opt.pass_emm THEN {PID_CAT} ELSE {})
    /\ sf_pat' = {}
    /\ sf_cas_pids' = {}
    /\ sf_hist' = SINoHist

\* The plugin after its construction and start() with one of the command lines.
SIFilterCreated(opts) ==
    /\ sf_opt \in opts
    /\ sf_pass_pmt = sf_opt.pmt
    /\ sf_drop_status = (IF sf_opt.stuffing THEN TSP_NULL ELSE TSP_DROP)
    /\ sf_pass_pids = {TablePID(t) : t \in sf_opt.tables}
    /\ sf_demux_pids = {PID_PAT} \cup (IF sf_opt.pass_emm THEN {PID_CAT} ELSE {})
    /\ sf_pat = {}
    /\ sf_cas_pids = {}
    /\ sf_hist = SINoHist

\* tsp restarts the plugin.
SIFilterStart ==
    /\ sf_hist.seen > 0
    /\ SIFilterStarted(sf_opt)
    /\ UNCHANGED sf_others

\* SIFilterPlugin::processPAT: the PID's to pass after this PAT.
processPAT_pass(pass_pmt, pass_pids, pmts) ==
    IF pass_pmt THEN pass_pids \cup RangeOf(pmts) ELSE pass_pids

\* SIFilterPlugin::processPacket: _demux.feedPacket() invokes handleTable() when
\* the packet completes a table on a filtered PID, then the packet is passed
\* or not according to _pass_pids.
SIFilterProcessPacket ==
    \E pkt \in SIPackets :
        LET delivered == pkt.table.tid # -1 /\ pkt.pid \in sf_demux_pids
            tid == IF delivered THEN pkt.table.tid ELSE -1
            new_pass == CASE tid = TID_PAT -> processPAT_pass(sf_pass_pmt, sf_pass_pids, pkt.table.pmts)
                          [] tid \in {TID_CAT, TID_PMT} -> addMatchingPIDs(sf_opt, sf_pass_pids, pkt.table.descs, tid)
                          [] OTHER -> sf_pass_pids
        IN  /\ sf_hist.seen < MaxSIPkts
            /\ sf_pass_pids' = new_pass
            /\ sf_demux_pids' = IF tid = TID_PAT /\ sf_opt.pass_ecm
                                THEN sf_demux_pids \cup RangeOf(pkt.table.pmts)
                                ELSE sf_demux_pids
            /\ sf_pat' = IF tid = TID_PAT THEN RangeOf(pkt.table.pmts) ELSE sf_pat
            /\ sf_cas_pids' = IF tid \in {TID_CAT, TID_PMT}
                              THEN addMatchingPIDs(sf_opt, sf_cas_pids, pkt.table.descs, tid)
                              ELSE sf_cas_pids
            /\ sf_hist' = [seen |-> sf_hist.seen + 1, pid |-> pkt.pid,
                           status |-> IF pkt.pid \in new_pass THEN TSP_OK ELSE sf_drop_status]
            /\ UNCHANGED <<sf_opt, sf_pass_pmt, sf_drop_status, sf_others>>

SIFilterNext ==
    \/ SIFilterStart
    \/ SIFilterProcessPacket

(***************************************************************************)
(* Typed descriptors: ts::AC3Descriptor, ts::PrivateDataSpecifierDescriptor, *)
(* ts::ServiceDescriptor, ts::DataBroadcastDescriptor                      *)
(***************************************************************************)

DID_SERVICE == 72
DID_DATA_BROADCAST == 100

\* ts::Descriptor: a valid binary descriptor (tag, payload of at most 255 bytes;
\* the length byte is the size of the payload) or an invalid one (no data).
BinDesc(t, bytes) == [valid |-> Len(bytes) < 256, tag |-> t, payload |-> bytes]
InvalidBin == [valid |-> FALSE, tag |-> 0, payload |-> <<>>]

\* Bit n (mask 2^n) of a byte.
Bit(byte, mask) == (byte \div mask) % 2 = 1

\* DVB strings. The characters of the model are the ASCII letters, which every
\* character table decodes to themselves and which the default table (ISO 6937,
\* no selector) can encode. A first byte below 0x20 selects a character table:
\* 0x05 (ISO 8859-9) and 0x15 (UTF-8) are one-byte selectors.
FromDVB(dvb) ==
    IF Len(dvb) > 0 /\ dvb[1] < 32 THEN SubSeq(dvb, 2, Len(dvb)) ELSE dvb

\* UString::FromDVBWithByteLength: the decoded string and the rest of the buffer.
FromDVBWithByteLength(buffer) ==
    IF Len(buffer) = 0 THEN [str |-> <<>>, rest |-> <<>>]
    ELSE LET dvbSize == IF buffer[1] < Len(buffer) - 1 THEN buffer[1] ELSE Len(buffer) - 1
         IN  [str |-> FromDVB(SubSeq(buffer, 2, dvbSize + 1)),
              rest |-> SubSeq(buffer, dvbSize + 2, Len(buffer))]

\* UString::toDVB without charset: the first of ISO 6937, ISO 8859-15 and UTF-8
\* that can encode the string, i.e. the default table, without selector.
toDVB(str) == str

\* UString::toDVBWithByteLength
toDVBWithByteLength(str) == <<Len(toDVB(str))>> \o toDVB(str)

\* The default constructors.
TDDefault(class) ==
    CASE class = "AC3" ->
             [class |-> class, is_valid |-> TRUE, component_type |-> -1, bsid |-> -1,
              mainid |-> -1, asvc |-> -1, additional_info |-> <<>>]
      [] class = "PDS" -> [class |-> class, is_valid |-> TRUE, pds |-> 0]
      [] class = "Service" ->
             [class |-> class, is_valid |-> TRUE, service_type |-> 0,
              provider_name |-> <<>>, service_name |-> <<>>]
      [] class = "DataBroadcast" ->
             [class |-> class, is_valid |-> TRUE, data_broadcast_id |-> 0, component_tag |-> 0,
              selector_bytes |-> <<>>, language_code |-> <<>>, text |-> <<>>]

TDClasses == {"AC3", "PDS", "Service", "DataBroadcast"}

\* AC3Descriptor::deserialize. An unset Variable<uint8_t> is -1.
AC3Deserialize(obj, desc) ==
    LET ok == desc.valid /\ desc.tag = DID_AC3 /\ Len(desc.payload) >= 1
        data == desc.payload
        flags == data[1]
        has1 == Bit(flags, 128) /\ Len(data) - 1 >= 1
        p1 == IF has1 THEN 3 ELSE 2
        has2 == Bit(flags, 64) /\ Len(data) - (p1 - 1) >= 1
        p2 == IF has2 THEN p1 + 1 ELSE p1
        has3 == Bit(flags, 32) /\ Len(data) - (p2 - 1) >= 1
        p3 == IF has3 THEN p2 + 1 ELSE p2
        has4 == Bit(flags, 16) /\ Len(data) - (p3 - 1) >= 1
        p4 == IF has4 THEN p3 + 1 ELSE p3
    IN  IF ~ok THEN [TDDefault("AC3") EXCEPT !.is_valid = FALSE]
        ELSE [class |-> "AC3", is_valid |-> TRUE,
              component_type |-> IF has1 THEN data[2] ELSE -1,
              bsid |-> IF has2 THEN data[p1] ELSE -1,
              mainid |-> IF has3 THEN data[p2] ELSE -1,
              asvc |-> IF has4 THEN data[p3] ELSE -1,
              additional_info |-> SubSeq(data, p4, Len(data))]

\* AC3Descriptor::serialize
AC3Serialize(obj) ==
    LET Opt(v) == IF v # -1 THEN <<v>> ELSE <<>>
        flags == (IF obj.component_type # -1 THEN 128 ELSE 0) + (IF obj.bsid # -1 THEN 64 ELSE 0)
                 + (IF obj.mainid # -1 THEN 32 ELSE 0) + (IF obj.asvc # -1 THEN 16 ELSE 0)
    IN  BinDesc(DID_AC3, <<flags>> \o Opt(obj.component_type) \o Opt(obj.bsid)
                         \o Opt(obj.mainid) \o Opt(obj.asvc) \o obj.additional_info)

\* PrivateDataSpecifierDescriptor::deserialize
PDSDeserialize(obj, desc) ==
    LET ok == desc.valid /\ desc.tag = DID_PRIV_DATA_SPECIF /\ Len(desc.payload) = 4
        data == desc.payload
    IN  IF ok THEN [obj EXCEPT !.is_valid = TRUE,
                               !.pds = ((data[1] * 256 + data[2]) * 256 + data[3]) * 256 + data[4]]
        ELSE [obj EXCEPT !.is_valid = FALSE]

\* PrivateDataSpecifierDescriptor::serialize
PDSSerialize(obj) ==
    BinDesc(DID_PRIV_DATA_SPECIF,
            <<(obj.pds \div 16777216) % 256, (obj.pds \div 65536) % 256,
              (obj.pds \div 256) % 256, obj.pds % 256>>)

\* ServiceDescriptor::deserialize
ServiceDeserialize(obj, desc) ==
    LET ok == desc.valid /\ desc.tag = DID_SERVICE /\ Len(desc.payload) >= 3
        data == desc.payload
        s1 == FromDVBWithByteLength(SubSeq(data, 2, Len(data)))
        s2 == FromDVBWithByteLength(s1.rest)
    IN  IF ok THEN [class |-> "Service", is_valid |-> (s2.rest = <<>>), service_type |-> data[1],
                    provider_name |-> s1.str, service_name |-> s2.str]
        ELSE [obj EXCEPT !.is_valid = FALSE]

\* ServiceDescriptor::serialize
ServiceSerialize(obj) ==
    BinDesc(DID_SERVICE, <<obj.service_type>> \o toDVBWithByteLength(obj.provider_name)
                         \o toDVBWithByteLength(obj.service_name))

\* DataBroadcastDescriptor::deserialize
DataBroadcastDeserialize(obj, desc) ==
    LET ok == desc.valid /\ desc.tag = DID_DATA_BROADCAST /\ Len(desc.payload) >= 8
        data == desc.payload
        cleared == [obj EXCEPT !.is_valid = FALSE, !.selector_bytes = <<>>,
                               !.language_code = <<>>, !.text = <<>>]
        length == data[4]
        size == Len(data) - 4
        header == [cleared EXCEPT !.data_broadcast_id = data[1] * 256 + data[2],
                                  !.component_tag = data[3]]
        s1 == FromDVBWithByteLength(SubSeq(data, 4 + length + 3 + 1, Len(data)))
    IN  IF ~ok THEN cleared
        ELSE IF length + 4 > size THEN header
        ELSE [header EXCEPT !.is_valid = (s1.rest = <<>>),
                            !.selector_bytes = SubSeq(data, 5, 4 + length),
                            !.language_code = FromDVB(SubSeq(data, 4 + length + 1, 4 + length + 3)),
                            !.text = s1.str]

\* DataBroadcastDescriptor::serialize. SerializeLanguageCode fails unless the
\* language code has 3 characters; the binary descriptor is then invalidated.
DataBroadcastSerialize(obj) ==
    IF Len(obj.language_code) # 3 THEN InvalidBin
    ELSE BinDesc(DID_DATA_BROADCAST,
                 <<obj.data_broadcast_id \div 256, obj.data_broadcast_id % 256, obj.component_tag,
                   Len(obj.selector_bytes)>> \o obj.selector_bytes \o obj.language_code
                 \o toDVBWithByteLength(obj.text))

\* deserialize() and serialize() of the class of the object.
TDDeserializeObj(obj, desc) ==
    CASE obj.class = "AC3" -> AC3Deserialize(obj, desc)
      [] obj.class = "PDS" -> PDSDeserialize(obj, desc)
      [] obj.class = "Service" -> ServiceDeserialize(obj, desc)
      [] obj.class = "DataBroadcast" -> DataBroadcastDeserialize(obj, desc)

TDSerializeObj(obj) ==
    CASE obj.class = "AC3" -> AC3Serialize(obj)
      [] obj.class = "PDS" -> PDSSerialize(obj)
      [] obj.class = "Service" -> ServiceSerialize(obj)
      [] obj.class = "DataBroadcast" -> DataBroadcastSerialize(obj)

\* The payloads that the binary descriptors of each class carry: well-formed
\* ones, and ones that are too short, too long or inconsistent.
TDPayloads(class) ==
    CASE class = "AC3" ->
             {<<>>, <<0>>, <<0, 9>>, <<128, 7>>, <<192, 7, 8>>, <<240, 1, 2, 3, 4, 5>>,
              <<128>>, <<1>>}
      [] class = "PDS" -> {<<0, 0, 0, 1>>, <<1, 2, 3, 4>>, <<0, 0>>, <<0, 0, 0, 1, 0>>}
      [] class = "Service" ->
             {<<1, 0, 0>>, <<1, 1, 65, 1, 66>>, <<2, 2, 65, 66, 0>>, <<1, 2, 21, 65, 0>>,
              <<1, 0, 2, 5, 66>>, <<1, 0>>, <<3, 1, 65, 0, 0>>, <<4, 1, 66, 3, 65>>}
      [] class = "DataBroadcast" ->
             {<<0, 1, 5, 0, 65, 65, 65, 0>>, <<0, 1, 5, 1, 9, 65, 66, 65, 1, 66>>,
              <<0, 2, 6, 9, 65, 65, 65, 0>>, <<0, 1, 5>>, <<0, 3, 7, 0, 65, 65, 65, 0, 0>>}

TagOf(class) ==
    CASE class = "AC3" -> DID_AC3
      [] class = "PDS" -> DID_PRIV_DATA_SPECIF
      [] class = "Service" -> DID_SERVICE
      [] class = "DataBroadcast" -> DID_DATA_BROADCAST

\* The binary descriptors given to deserialize() of an object of this class:
\* descriptors of its tag, a descriptor of another tag, an invalid descriptor.
TDInputs(class) ==
    {BinDesc(TagOf(class), b) : b \in TDPayloads(class)}
    \cup {BinDesc(DID_EXTENSION, <<0, 0, 0, 1>>), InvalidBin}

\* A typed descriptor after its default constructor.
TDCreated(classes) ==
    /\ td_obj \in {TDDefault(c) : c \in classes}
    /\ td_bin = InvalidBin
    /\ td_out = InvalidBin
    /\ td_phase = "built"

\* deserialize(desc) on the object, whatever it contains.
TDDeserialize ==
    \E desc \in TDInputs(td_obj.class) :
        /\ td_obj' = TDDeserializeObj(td_obj, desc)
        /\ td_bin' = desc
        /\ td_out' = InvalidBin
        /\ td_phase' = "decoded"
        /\ UNCHANGED td_others

\* serialize(desc) of the object.
TDSerialize ==
    /\ td_phase # "encoded"
    /\ td_out' = TDSerializeObj(td_obj)
    /\ td_phase' = "encoded"
    /\ UNCHANGED <<td_obj, td_bin, td_others>>

TDNext ==
    \/ TDDeserialize
    \/ TDSerialize

(***************************************************************************)
(* ts::PCRExtractPlugin                                                    *)
(***************************************************************************)

MaxExtractPkts == 3

\* Command lines of the plugin (the output goes to the standard error).
PCRExtractOptions == [pcr : BOOLEAN, opcr : BOOLEAN, pts : BOOLEAN, dts : BOOLEAN, good_pts_only : BOOLEAN]

\* The packets of the transport stream: the PID and the time stamps of the
\* packet (-1: the packet has no such time stamp). The PTS and DTS of the model
\* are counted in units of 1024 ticks, so that the 33-bit range is 0..2^23-1.
ExtractPacket(p, pcr, opcr, pts, dts) == [pid |-> p, pcr |-> pcr, opcr |-> opcr, pts |-> pts, dts |-> dts]
ExtractPackets ==
    { ExtractPacket(VIDEO_PID, -1, -1, -1, -1), ExtractPacket(VIDEO_PID, 2700, -1, -1, -1),
      ExtractPacket(VIDEO_PID, -1, -1, 100, -1), ExtractPacket(VIDEO_PID, -1, -1, 50, 40),
      ExtractPacket(VIDEO_PID, 5400, 5000, 120, 110), ExtractPacket(AUDIO_PID, -1, -1, 70, -1),
      ExtractPacket(VIDEO_PID, -1, -1, 8388600, -1) }

\* PCRExtractPlugin::PIDContext::PIDContext()
ExtractPIDContext ==
    [packet_count |-> 0, pcr_count |-> 0, opcr_count |-> 0, pts_count |-> 0, dts_count |-> 0,
     first_pcr |-> 0, first_opcr |-> 0, first_pts |-> 0, last_good_pts |-> 0, first_dts |-> 0]

\* WrapUpPTS(pts1, pts2): pts2 follows pts1 after a wrap-around at 2^33, i.e.
\* pts2 < pts1 and pts1 - pts2 > 0x1F0000000 (in units of 1024 ticks: 0x7C0000).
PTS_WRAP_DISTANCE == 8126464
WrapUpPTS(pts1, pts2) == pts2 < pts1 /\ pts1 - pts2 > PTS_WRAP_DISTANCE

\* SequencedPTS(pts1, pts2): pts2 follows or equals pts1, possibly after a wrap-around.
SequencedPTS(pts1, pts2) == pts1 <= pts2 \/ WrapUpPTS(pts1, pts2)

\* Mutant of the test of line 314: --good-pts-only is ignored.
ReportPTS_NoFilter(get_pts, good_pts, good_pts_only) == get_pts

\* PCRExtractPlugin::processPacket, line 314: the PTS is reported.
ReportPTS(get_pts, good_pts, good_pts_only) == get_pts /\ (good_pts \/ ~good_pts_only)

\* PCRExtractPlugin::start(), lines 199-206: the time stamps to report.
GetFlags(opt) ==
    LET get_pts == opt.dts
        get_dts == opt.pts
    IN  IF ~get_pts /\ ~get_dts /\ ~opt.pcr /\ ~opt.opcr
        THEN [pcr |-> TRUE, opcr |-> TRUE, pts |-> TRUE, dts |-> TRUE]
        ELSE [pcr |-> opt.pcr, opcr |-> opt.opcr, pts |-> get_pts, dts |-> get_dts]

\* PCRExtractPlugin::start()
PCRExtractStarted(opt) ==
    /\ px_opt' = opt
    /\ px_get' = GetFlags(opt)
    /\ px_good_pts_only' = opt.good_pts_only
    /\ px_packet_count' = 0
    /\ px_stats' = [p \in {} |-> ExtractPIDContext]
    /\ px_report' = <<>>

\* The plugin after its construction and start() with one of the command lines.
PCRExtractCreated(opts) ==
    /\ px_opt \in opts
    /\ px_get = GetFlags(px_opt)
    /\ px_good_pts_only = px_opt.good_pts_only
    /\ px_packet_count = 0
    /\ px_stats = [p \in {} |-> ExtractPIDContext]
    /\ px_report = <<>>

\* tsp restarts the plugin.
PCRExtractStart ==
    /\ px_packet_count > 0
    /\ PCRExtractStarted(px_opt)
    /\ UNCHANGED px_others

\* A line of the report: PID, packet index in TS, packet index in PID, type,
\* count in PID, value (the offsets that end the line are not modelled).
ExtractLine(pkt, pc, type, count, value) ==
    [pid |-> pkt.pid, ts_index |-> px_packet_count, pid_index |-> pc.packet_count,
     type |-> type, count |-> count, value |-> value]

\* PCRExtractPlugin::processPacket
PCRExtractProcessPacket ==
    \E pkt \in ExtractPackets :
        LET pc == IF pkt.pid \in DOMAIN px_stats THEN px_stats[pkt.pid] ELSE ExtractPIDContext
            has_pcr == pkt.pcr # -1
            has_opcr == pkt.opcr # -1
            has_pts == pkt.pts # -1
            has_dts == pkt.dts # -1
            pc1 == IF has_pcr
                   THEN [pc EXCEPT !.pcr_count = @ + 1,
                                   !.first_pcr = IF pc.pcr_count = 0 THEN pkt.pcr ELSE @]
                   ELSE pc
            l1 == IF has_pcr /\ px_get.pcr
                  THEN <<ExtractLine(pkt, pc1, "PCR", pc1.pcr_count, pkt.pcr)>> ELSE <<>>
            pc2 == IF has_opcr
                   THEN [pc1 EXCEPT !.opcr_count = @ + 1,
                                    !.first_opcr = IF pc1.opcr_count = 0 THEN pkt.opcr ELSE @]
                   ELSE pc1
            l2 == IF has_opcr /\ px_get.opcr
                  THEN <<ExtractLine(pkt, pc2, "OPCR", pc2.opcr_count, pkt.opcr)>> ELSE <<>>
            last_good == IF pc2.pts_count = 0 THEN pkt.pts ELSE pc2.last_good_pts
            good_pts == SequencedPTS(last_good, pkt.pts)
            pc3 == IF has_pts
                   THEN [pc2 EXCEPT !.pts_count = @ + 1,
                                    !.first_pts = IF pc2.pts_count = 0 THEN pkt.pts ELSE @,
                                    !.last_good_pts = IF good_pts THEN pkt.pts ELSE last_good]
                   ELSE pc2
            l3 == IF has_pts /\ ReportPTS(px_get.pts, good_pts, px_good_pts_only)
                  THEN <<ExtractLine(pkt, pc3, "PTS", pc3.pts_count, pkt.pts)>> ELSE <<>>
            pc4 == IF has_dts
                   THEN [pc3 EXCEPT !.dts_count = @ + 1,
                                    !.first_dts = IF pc3.dts_count = 0 THEN pkt.dts ELSE @]
                   ELSE pc3
            l4 == IF has_dts /\ px_get.dts
                  THEN <<ExtractLine(pkt, pc4, "DTS", pc4.dts_count, pkt.dts)>> ELSE <<>>
            pc5 == [pc4 EXCEPT !.packet_count = @ + 1]
        IN  /\ px_packet_count < MaxExtractPkts
            /\ px_report' = px_report \o l1 \o l2 \o l3 \o l4
            /\ px_stats' = [p \in DOMAIN px_stats \cup {pkt.pid} |-> IF p = pkt.pid THEN pc5 ELSE px_stats[p]]
            /\ px_packet_count' = px_packet_count + 1
            /\ UNCHANGED <<px_opt, px_get, px_good_pts_only, px_others>>

PCRExtractNext ==
    \/ PCRExtractStart
    \/ PCRExtractProcessPacket

(***************************************************************************)
(* ts::PESPlugin                                                           *)
(*                                                                         *)
(* pes_opt is the command line, pes_max_dump_count is _max_dump_count,     *)
(* pes_abort is _abort, pes_hist is the history of the run since start().  *)
(***************************************************************************)
\* Bounds: the largest --max-dump-count, the number of video units (MPEG start codes
\* or AVC access units) in one PES packet, the number of TS packets processed.
MaxDumpCount == 2
MaxUnits == 2
MaxPESPkts == 3
\* The command lines of the model (--max-dump-count 0: not given, no limit).
PESOptions ==
    [trace_packets : BOOLEAN, header : BOOLEAN, payload : BOOLEAN, start_code : BOOLEAN,
     avc_access_unit : BOOLEAN, max_dump_count : 0..MaxDumpCount]
\* What a TS packet does in the PES demux: nothing (pes = FALSE), or it ends a PES
\* packet whose payload holds codes MPEG-1/2 start codes or units AVC access units.
PESPackets ==
    { [pes |-> FALSE, codes |-> 0, units |-> 0] }
    \cup { [pes |-> TRUE, codes |-> c, units |-> 0] : c \in 0..MaxUnits }
    \cup { [pes |-> TRUE, codes |-> 0, units |-> u] : u \in 1..MaxUnits }
\* The plugin fields that the demux handlers change, with the number of dumps
\* written to the output and the result of the last lastDump().
PESHandlerState ==
    [max_dump_count |-> pes_max_dump_count, abort |-> pes_abort, dumps |-> pes_hist.dumps,
     last |-> FALSE]
\* PESPlugin::start: _trace_packets
TracePackets(opt) == opt.trace_packets \/ opt.header \/ opt.payload
\* One dump is written to the output stream.
PESDump(st) == [st EXCEPT !.dumps = @ + 1]
\* PESPlugin::lastDump (the output stream is good):
\* _max_dump_count != 0 && _max_dump_count-- == 1
lastDump(st) ==
    IF st.max_dump_count # 0
    THEN IF st.max_dump_count = 1
         THEN [st EXCEPT !.max_dump_count = 0, !.abort = TRUE, !.last = TRUE]
         ELSE [st EXCEPT !.max_dump_count = @ - 1, !.last = FALSE]
    ELSE [st EXCEPT !.last = FALSE]
\* PESPlugin::handlePESPacket (no --min-payload-size, no --max-payload-size)
handlePESPacket(st) ==
    LET s1 == IF TracePackets(pes_opt) THEN lastDump(PESDump(st)) ELSE [st EXCEPT !.last = FALSE]
        s2 == IF pes_opt.header THEN lastDump(PESDump(s1)) ELSE s1
        s3 == IF pes_opt.payload THEN lastDump(PESDump(s2)) ELSE s2
    IN  IF s1.last THEN s1 ELSE IF s2.last THEN s2 ELSE s3
\* PESPlugin::handleVideoStartCode
handleVideoStartCode(st) ==
    IF ~pes_opt.start_code THEN st ELSE lastDump(PESDump(st))
\* PESPlugin::handleAVCAccessUnit (no --nal-unit-type: all types pass the filter)
handleAVCAccessUnit(st) ==
    IF ~pes_opt.avc_access_unit THEN st ELSE lastDump(PESDump(st))
\* PESDemux: the start codes of a PES packet go to handleVideoStartCode in order.
RECURSIVE deliverStartCodes(_, _)
deliverStartCodes(st, n) ==
    IF n = 0 THEN st ELSE deliverStartCodes(handleVideoStartCode(st), n - 1)
\* PESDemux: the access units of a PES packet go to handleAVCAccessUnit in order.
RECURSIVE deliverAccessUnits(_, _)
deliverAccessUnits(st, n) ==
    IF n = 0 THEN st ELSE deliverAccessUnits(handleAVCAccessUnit(st), n - 1)
\* PESDemux::feedPacket: a complete PES packet goes to handlePESPacket, then each of
\* its start codes and access units to its handler.
pesFeedPacket(st, pkt) ==
    IF pkt.pes
    THEN deliverAccessUnits(deliverStartCodes(handlePESPacket(st), pkt.codes), pkt.units)
    ELSE st
\* History of the run: n is the number of TS packets processed since start(), dumps
\* the number of dumps written, status the last returned status, ends the number of
\* calls that returned TSP_END, before the dumps written before the last call.
PESNoHist == [n |-> 0, dumps |-> 0, status |-> "none", ends |-> 0, before |-> 0]
\* PESPlugin::start for the command line opt
PESStarted(opt) ==
    /\ pes_opt = opt
    /\ pes_max_dump_count = opt.max_dump_count
    /\ pes_abort = FALSE
    /\ pes_hist = PESNoHist
\* The plugin is created and started with a command line of opts.
PESCreated(opts) == \E opt \in opts : PESStarted(opt)
\* PESPlugin::start, called again with the same command line.
PESStart ==
    /\ pes_hist.n > 0
    /\ pes_max_dump_count' = pes_opt.max_dump_count
    /\ pes_abort' = FALSE
    /\ pes_hist' = PESNoHist
    /\ UNCHANGED <<pes_opt, pes_others>>
\* PESPlugin::processPacket on the next TS packet.
PESProcessPacket ==
    \E pkt \in PESPackets :
      \E fed \in {pesFeedPacket(PESHandlerState, pkt)} :
        /\ pes_hist.n < MaxPESPkts
        /\ pes_max_dump_count' = fed.max_dump_count
        /\ pes_abort' = fed.abort
        /\ pes_hist' = [n |-> pes_hist.n + 1, dumps |-> fed.dumps,
                        status |-> IF fed.abort THEN TSP_END ELSE TSP_OK,
                        ends |-> pes_hist.ends + (IF fed.abort THEN 1 ELSE 0),
                        before |-> pes_hist.dumps]
        /\ UNCHANGED <<pes_opt, pes_others>>
PESNext ==
    \/ PESStart
    \/ PESProcessPacket

(***************************************************************************)
(* ts::EIT: the table id and the last table id                             *)
(*                                                                         *)
(* ti_table_id is _table_id, ti_last_table_id is last_table_id (both are   *)
(* uint8_t), ti_hist is the last call of setActual: its argument and the   *)
(* two table id's before the call.                                         *)
(***************************************************************************)
TID_EIT_PF_ACT == 78
TID_EIT_PF_OTH == 79
TID_EIT_S_ACT_MIN == 80
TID_EIT_S_ACT_MAX == 95
TID_EIT_S_OTH_MIN == 96
\* The last table id of the EIT's, which is the last one of the EIT schedule other.
TID_EIT_MAX == 111
\* _table_id & 0x0F
Low4(tid) == tid % 16
\* EIT::ComputeTableId
ComputeTableId(is_actual, is_pf, eits_index) ==
    IF is_pf THEN (IF is_actual THEN TID_EIT_PF_ACT ELSE TID_EIT_PF_OTH)
    ELSE (IF is_actual THEN TID_EIT_S_ACT_MIN ELSE TID_EIT_S_OTH_MIN) + Low4(eits_index)
\* EIT::isPresentFollowing
isPresentFollowing(tid) == tid = TID_EIT_PF_ACT \/ tid = TID_EIT_PF_OTH
\* The EIT's of the model: the EIT's that the constructor builds (last_table_id is
\* _table_id) and the schedule EIT's where last_table_id was set to a later table
\* id of the same range, as in a received EIT.
EITIds ==
    { [table_id |-> ComputeTableId(a, f, i), last_table_id |-> ComputeTableId(a, f, i)] :
        a \in BOOLEAN, f \in BOOLEAN, i \in 0..15 }
    \cup UNION { { [table_id |-> ComputeTableId(a, FALSE, i),
                       last_table_id |-> ComputeTableId(a, FALSE, j)] : j \in i..15 } :
                   a \in BOOLEAN, i \in 0..15 }
EITIdNoHist == [called |-> FALSE, is_actual |-> FALSE, table_id |-> 0, last_table_id |-> 0]
\* An EIT of ids is built.
EITIdCreated(ids) ==
    /\ \E id \in ids : ti_table_id = id.table_id /\ ti_last_table_id = id.last_table_id
    /\ ti_hist = EITIdNoHist
\* EIT::setActual, line 133: the last table id of an EIT schedule "other".
setActualOtherLast(last) == TID_EIT_S_ACT_MIN + Low4(last)
\* EIT::setActual(is_actual)
EITSetActual ==
    \E is_actual \in BOOLEAN :
        /\ IF isPresentFollowing(ti_table_id)
           THEN /\ ti_table_id' = (IF is_actual THEN TID_EIT_PF_ACT ELSE TID_EIT_PF_OTH)
                /\ ti_last_table_id' = ti_table_id'
           ELSE IF is_actual
           THEN /\ ti_table_id' = TID_EIT_S_ACT_MIN + Low4(ti_table_id)
                /\ ti_last_table_id' = TID_EIT_S_ACT_MIN + Low4(ti_last_table_id)
           ELSE /\ ti_table_id' = TID_EIT_S_OTH_MIN + Low4(ti_table_id)
                /\ ti_last_table_id' = setActualOtherLast(ti_last_table_id)
        /\ ti_hist' = [called |-> TRUE, is_actual |-> is_actual, table_id |-> ti_table_id,
                       last_table_id |-> ti_last_table_id]
        /\ UNCHANGED ti_others
EITIdNext ==
    \/ EITSetActual

(***************************************************************************)
(* Specifications                                                          *)
(***************************************************************************)

\* A component that a specification does not use stays as created.
EITIdUnused == {[table_id |-> TID_EIT_PF_ACT, last_table_id |-> TID_EIT_PF_ACT]}
PESUnused ==
    {[trace_packets |-> FALSE, header |-> FALSE, payload |-> FALSE, start_code |-> FALSE,
      avc_access_unit |-> FALSE, max_dump_count |-> 0]}
PCRExtractUnused == {[pcr |-> FALSE, opcr |-> FALSE, pts |-> FALSE, dts |-> FALSE, good_pts_only |-> FALSE]}
TDUnused == {"AC3"}
SIFilterUnused ==
    {[tables |-> {}, pmt |-> FALSE, stuffing |-> FALSE, pass_ecm |-> FALSE, pass_emm |-> FALSE,
      min_cas_id |-> 0, max_cas_id |-> 511]}
PMTPluginUnused ==
    {[pmt_pid |-> 0, ac3_atsc2dvb |-> FALSE, eac3_atsc2dvb |-> FALSE,
      cleanup_priv_desc |-> FALSE, add_stream_id |-> FALSE, moved_pid |-> NoMovedPid]}
VerifyUnused == {[absolute |-> FALSE, bitrate |-> 0, jitter_max |-> -1, pids |-> {}]}
ClearUnused == {[service |-> "none", video |-> FALSE, audio |-> FALSE, stuffing |-> FALSE, drop_after |-> 0]}

T2MIUnused == {[extract |-> FALSE, log |-> FALSE, pid |-> PID_NULL, plp |-> -1]}

DLInit == DLCreated(<<>>) /\ ClearCreated(ClearUnused) /\ T2MICreated(T2MIUnused) /\ EITCreated /\ VerifyCreated(VerifyUnused) /\ PMTPluginCreated(PMTPluginUnused) /\ SIFilterCreated(SIFilterUnused) /\ TDCreated(TDUnused) /\ PCRExtractCreated(PCRExtractUnused) /\ EITIdCreated(EITIdUnused) /\ PESCreated(PESUnused)

SpecDL == DLInit /\ [][DLNext]_vars

ClearInit == DLCreated(<<>>) /\ ClearCreated(ClearOptions) /\ T2MICreated(T2MIUnused) /\ EITCreated /\ VerifyCreated(VerifyUnused) /\ PMTPluginCreated(PMTPluginUnused) /\ SIFilterCreated(SIFilterUnused) /\ TDCreated(TDUnused) /\ PCRExtractCreated(PCRExtractUnused) /\ EITIdCreated(EITIdUnused) /\ PESCreated(PESUnused)

SpecClear == ClearInit /\ [][ClearNext]_vars

T2MIInit == DLCreated(<<>>) /\ ClearCreated(ClearUnused) /\ T2MICreated(T2MIOptions) /\ EITCreated /\ VerifyCreated(VerifyUnused) /\ PMTPluginCreated(PMTPluginUnused) /\ SIFilterCreated(SIFilterUnused) /\ TDCreated(TDUnused) /\ PCRExtractCreated(PCRExtractUnused) /\ EITIdCreated(EITIdUnused) /\ PESCreated(PESUnused)

SpecT2MI == T2MIInit /\ [][T2MINext]_vars

EITInit == DLCreated(<<>>) /\ ClearCreated(ClearUnused) /\ T2MICreated(T2MIUnused) /\ EITCreated /\ VerifyCreated(VerifyUnused) /\ PMTPluginCreated(PMTPluginUnused) /\ SIFilterCreated(SIFilterUnused) /\ TDCreated(TDUnused) /\ PCRExtractCreated(PCRExtractUnused) /\ EITIdCreated(EITIdUnused) /\ PESCreated(PESUnused)

SpecEIT == EITInit /\ [][EITNext]_vars

VerifyInit ==
    /\ DLCreated(<<>>) /\ ClearCreated(ClearUnused) /\ T2MICreated(T2MIUnused) /\ EITCreated
    /\ VerifyCreated(VerifyOptions) /\ PMTPluginCreated(PMTPluginUnused) /\ SIFilterCreated(SIFilterUnused) /\ TDCreated(TDUnused) /\ PCRExtractCreated(PCRExtractUnused) /\ EITIdCreated(EITIdUnused) /\ PESCreated(PESUnused)

SpecVerify == VerifyInit /\ [][VerifyNext]_vars

PMTPluginInit ==
    /\ DLCreated(<<>>) /\ ClearCreated(ClearUnused) /\ T2MICreated(T2MIUnused) /\ EITCreated
    /\ VerifyCreated(VerifyUnused) /\ PMTPluginCreated(PMTPluginOptions) /\ SIFilterCreated(SIFilterUnused) /\ TDCreated(TDUnused) /\ PCRExtractCreated(PCRExtractUnused) /\ EITIdCreated(EITIdUnused) /\ PESCreated(PESUnused)

SpecPMTPlugin == PMTPluginInit /\ [][PMTPluginNext]_vars

SIFilterInit ==
    /\ DLCreated(<<>>) /\ ClearCreated(ClearUnused) /\ T2MICreated(T2MIUnused) /\ EITCreated
    /\ VerifyCreated(VerifyUnused) /\ PMTPluginCreated(PMTPluginUnused) /\ SIFilterCreated(SIFilterOptions) /\ TDCreated(TDUnused) /\ PCRExtractCreated(PCRExtractUnused) /\ EITIdCreated(EITIdUnused) /\ PESCreated(PESUnused)

SpecSIFilter == SIFilterInit /\ [][SIFilterNext]_vars

TDInit ==
    /\ DLCreated(<<>>) /\ ClearCreated(ClearUnused) /\ T2MICreated(T2MIUnused) /\ EITCreated
    /\ VerifyCreated(VerifyUnused) /\ PMTPluginCreated(PMTPluginUnused) /\ SIFilterCreated(SIFilterUnused)
    /\ TDCreated(TDClasses) /\ PCRExtractCreated(PCRExtractUnused) /\ EITIdCreated(EITIdUnused) /\ PESCreated(PESUnused)

SpecTD == TDInit /\ [][TDNext]_vars

PCRExtractInit ==
    /\ DLCreated(<<>>) /\ ClearCreated(ClearUnused) /\ T2MICreated(T2MIUnused) /\ EITCreated
    /\ VerifyCreated(VerifyUnused) /\ PMTPluginCreated(PMTPluginUnused) /\ SIFilterCreated(SIFilterUnused)
    /\ TDCreated(TDUnused) /\ PCRExtractCreated(PCRExtractOptions) /\ EITIdCreated(EITIdUnused) /\ PESCreated(PESUnused)

SpecPCRExtract == PCRExtractInit /\ [][PCRExtractNext]_vars

PESInit ==
    /\ DLCreated(<<>>) /\ ClearCreated(ClearUnused) /\ T2MICreated(T2MIUnused) /\ EITCreated
    /\ VerifyCreated(VerifyUnused) /\ PMTPluginCreated(PMTPluginUnused) /\ SIFilterCreated(SIFilterUnused)
    /\ TDCreated(TDUnused) /\ PCRExtractCreated(PCRExtractUnused) /\ EITIdCreated(EITIdUnused) /\ PESCreated(PESOptions)

SpecPES == PESInit /\ [][PESNext]_vars

EITIdInit ==
    /\ DLCreated(<<>>) /\ ClearCreated(ClearUnused) /\ T2MICreated(T2MIUnused) /\ EITCreated
    /\ VerifyCreated(VerifyUnused) /\ PMTPluginCreated(PMTPluginUnused) /\ SIFilterCreated(SIFilterUnused)
    /\ TDCreated(TDUnused) /\ PCRExtractCreated(PCRExtractUnused) /\ EITIdCreated(EITIds) /\ PESCreated(PESUnused)

SpecEITId == EITIdInit /\ [][EITIdNext]_vars

(***************************************************************************)
(* Claims about ts::DescriptorList                                         *)
(***************************************************************************)

\* The PDS a private_data_specifier_descriptor declares (0 when its payload is too
\* short to hold one).
DeclaredPDS(d) == IF d.psize >= 4 THEN d.val ELSE 0

\* The PDS in force at position i of l: the one declared by the closest
\* private_data_specifier_descriptor at or before i, 0 if there is none.
RECURSIVE ActivePDS(_, _)
ActivePDS(l, i) ==
    IF i = 0 THEN 0
    ELSE IF l[i].desc.tag = DID_PRIV_DATA_SPECIF THEN DeclaredPDS(l[i].desc)
    ELSE ActivePDS(l, i - 1)

\* C1: after every add, removeByIndex, removeByTag and removeInvalidPrivateDescriptors,
\* the PDS associated with every descriptor of the list is the PDS declared by the
\* most recent private_data_specifier_descriptor at or before it, or 0 if none.
C1_PDSInvariant ==
    \A i \in 1..Len(list) : list[i].pds = ActivePDS(list, i)

\* C1 witness: a private_data_specifier_descriptor was removed and the PDS of a
\* descriptor that followed it changed.
C1_Witness ==
    /\ dl_last.op = "removeByIndex"
    /\ dl_last.ret = 1
    /\ dl_last.before[dl_last.index + 1].desc.tag = DID_PRIV_DATA_SPECIF
    /\ \E k \in 1..Len(list) :
          /\ k > dl_last.index
          /\ list[k].pds # dl_last.before[k + 1].pds

\* A private descriptor lies between position i of l and the next
\* private_data_specifier_descriptor (or the end of the list).
PrivateAhead(l, i) ==
    \E j \in (i + 1)..Len(l) :
        /\ l[j].desc.tag >= 128
        /\ \A k \in (i + 1)..(j - 1) : l[k].desc.tag # DID_PRIV_DATA_SPECIF

\* The descriptors of l that a removal by tag "tag" must leave in place: those with
\* another tag and, when tag is private_data_specifier, those with a private
\* descriptor ahead.
RECURSIVE MustStay(_, _, _)
MustStay(l, i, tag) ==
    IF i > Len(l) THEN <<>>
    ELSE IF l[i].desc.tag # tag \/ (tag = DID_PRIV_DATA_SPECIF /\ PrivateAhead(l, i))
    THEN <<l[i].desc>> \o MustStay(l, i + 1, tag)
    ELSE MustStay(l, i + 1, tag)

\* C2: removeByIndex and removeByTag remove a private_data_specifier_descriptor only
\* if no private descriptor lies between it and the next private_data_specifier_descriptor
\* or the end of the list; a refused removal leaves the list and every PDS value unchanged.
C2_RemovePDSOnlyIfUnused ==
    /\ (dl_last.op = "removeByIndex" /\ dl_last.index < Len(dl_last.before)
        /\ dl_last.before[dl_last.index + 1].desc.tag = DID_PRIV_DATA_SPECIF) =>
            /\ dl_last.ret = 1 => ~PrivateAhead(dl_last.before, dl_last.index + 1)
            /\ dl_last.ret = 0 => list = dl_last.before
    /\ dl_last.op = "removeByTag" =>
            /\ MustStay(list, 1, dl_last.tag) = MustStay(dl_last.before, 1, dl_last.tag)
            /\ dl_last.ret = Len(dl_last.before) - Len(list)
            /\ dl_last.ret = 0 => list = dl_last.before

\* C2 witness: the removal by index of a private_data_specifier_descriptor followed by
\* a private descriptor was refused.
C2_Witness ==
    /\ dl_last.op = "removeByIndex"
    /\ dl_last.index < Len(dl_last.before)
    /\ dl_last.before[dl_last.index + 1].desc.tag = DID_PRIV_DATA_SPECIF
    /\ PrivateAhead(dl_last.before, dl_last.index + 1)
    /\ dl_last.ret = 0

(***************************************************************************)
(* Claims about ts::ClearPlugin                                            *)
(***************************************************************************)

\* C3: with --drop-after-packets N, when the most recent clear packet of a checked
\* audio/video PID has index c, a packet of index greater than c+N is not forwarded:
\* it is dropped, or nulled with --stuffing (or the plugin has terminated).
C3_NoForwardAfterHoldOff ==
    (/\ cl_opt.drop_after > 0
     /\ cl_hist.idx > 0
     /\ cl_hist.last_clear >= 0
     /\ cl_hist.idx - 1 > cl_hist.last_clear + cl_opt.drop_after)
    => cl_hist.status \in {TSP_END, IF cl_opt.stuffing THEN TSP_NULL ELSE TSP_DROP}

\* C3 witness: the packet of index c+N+1 was nulled (--stuffing) while the packet
\* before it was still forwarded.
C3_Witness ==
    /\ cl_opt.drop_after > 0
    /\ cl_opt.stuffing
    /\ cl_hist.last_clear >= 0
    /\ cl_hist.idx - 1 = cl_hist.last_clear + cl_opt.drop_after + 1
    /\ cl_hist.previous_pass
    /\ cl_hist.status = TSP_NULL

\* C4: while the plugin has not terminated, a clear packet of a checked audio/video
\* PID is itself forwarded, also after forwarding had stopped, and every packet is
\* forwarded from that packet on as long as the hold-off has not expired.
C4_ResumeOnClear ==
    /\ (cl_hist.checked /\ ~cl_hist.ended_before) =>
            (cl_hist.status = TSP_OK /\ pass_packets)
    /\ (/\ cl_hist.idx > 0
        /\ ~cl_hist.ended
        /\ cl_hist.last_clear >= 0
        /\ cl_hist.idx - 1 - cl_hist.last_clear <= drop_after) =>
            cl_hist.status = TSP_OK

\* C4 witness: forwarding had started and stopped, and the last packet, a clear
\* packet of a checked PID, was forwarded.
C4_Witness ==
    /\ cl_hist.stopped
    /\ ~cl_hist.previous_pass
    /\ cl_hist.checked
    /\ cl_hist.status = TSP_OK
    /\ pass_packets

(***************************************************************************)
(* Claims about ts::T2MIPlugin                                             *)
(***************************************************************************)

\* C5: in extract mode the inner TS packets are output in the order in which the
\* demux delivered them to handleTSPacket, and none is output twice: the ranks of
\* delivery of the output packets are strictly increasing.
C5_OutputInDeliveryOrder ==
    extract =>
        /\ \A i \in 1..Len(t2_hist.out) :
              t2_hist.out[i].inner /\ t2_hist.out[i].seq \in 1..t2_hist.delivered
        /\ \A i \in 1..Len(t2_hist.out) : \A j \in 1..Len(t2_hist.out) :
              i < j => t2_hist.out[i].seq < t2_hist.out[j].seq

\* C5 witness: two inner packets were output and others are still queued.
C5_Witness ==
    /\ extract
    /\ Len(t2_hist.out) >= 2
    /\ Len(ts_queue) >= 1

\* C6: when the outer stream ends, all the inner TS packets that the selected PLP
\* carried have been output.
C6_AllInnerPacketsOutput ==
    (t2_hist.stopped /\ extract) => Len(t2_hist.out) = t2_hist.selected

\* C7: in extract mode every forwarded packet is an inner packet, never an outer
\* one, and once the PLP is selected every queued or forwarded packet comes from a
\* T2-MI packet of the selected PLP.
C7_OnlySelectedPLP ==
    extract =>
        /\ \A i \in 1..Len(t2_hist.out) : t2_hist.out[i].inner
        /\ plp_valid =>
              /\ \A i \in 1..Len(ts_queue) : ts_queue[i].plp = plp
              /\ \A i \in 1..Len(t2_hist.out) : t2_hist.out[i].plp = plp

\* C7 witness: the demux delivered inner packets of another PLP, and packets of the
\* selected PLP were output.
C7_Witness ==
    /\ extract
    /\ plp_valid
    /\ t2_hist.delivered > t2_hist.selected
    /\ Len(t2_hist.out) >= 1

(***************************************************************************)
(* Claims on ts::EIT                                                       *)
(***************************************************************************)

\* The event entries of a binary table, in the order of the sections.
RECURSIVE FlatEntries(_)
FlatEntries(sections) ==
    IF sections = <<>> THEN <<>> ELSE sections[1] \o FlatEntries(Tail(sections))

\* The descriptors of the entries of one event, in the order of the entries.
RECURSIVE LoopsOf(_, _)
LoopsOf(entries, event_id) ==
    IF entries = <<>> THEN <<>>
    ELSE (IF entries[1].fixed.event_id = event_id THEN entries[1].loop ELSE <<>>)
         \o LoopsOf(Tail(entries), event_id)

\* The descriptors of a descriptor list, without their private data specifier.
DescsOf(l) == [i \in DOMAIN l |-> l[i].desc]

\* The positions <<section, entry>> of the entries of one event in the serialized table.
PositionsOf(event_id) ==
    { <<i, j>> \in (DOMAIN eit_out) \X (1..MaxEITDescs + MaxEvents + 2) :
        j \in DOMAIN eit_out[i] /\ eit_out[i][j].fixed.event_id = event_id }

\* The event, its 12 fixed bytes and its descriptors, fits in an empty section.
FitsInSection(event) == 12 + binarySize(event.descs) <= 1012 - 6

Serialized == eit_phase \in {"serialized", "reserialized"} /\ is_valid

\* C8: when every event of a valid EIT fits in one section (12 bytes and its
\* descriptors, after the 6 first bytes of the payload), serialize builds sections
\* of at most 1012 bytes of payload where each event is one entry, in one
\* section, with all its descriptors: no event is on two sections.
C8_WholeEvents ==
    (Serialized /\ \A event_id \in DOMAIN events : FitsInSection(events[event_id]))
    => /\ \A i \in DOMAIN eit_out : PayloadSize(eit_out[i]) <= 1012
       /\ \A event_id \in DOMAIN events :
            /\ Cardinality(PositionsOf(event_id)) = 1
            /\ \A p \in PositionsOf(event_id) :
                 eit_out[p[1]][p[2]] =
                     EventEntry(EventFixedPart(event_id, events[event_id]),
                                DescsOf(events[event_id].descs))

\* Events that fit each in one section and not together in one section are
\* serialized: the table has two sections.
C8_Witness ==
    /\ Serialized
    /\ Cardinality(DOMAIN events) >= 2
    /\ \A event_id \in DOMAIN events :
         FitsInSection(events[event_id]) /\ events[event_id].descs # <<>>
    /\ Len(eit_out) >= 2

\* C9: an event that does not fit in one section is serialized on consecutive
\* sections, one entry in each, each entry after the first one at the start of
\* its section and all of them with the 12 fixed bytes of the event; the
\* descriptors of these entries, in this order, are the descriptors of the event,
\* each one once, whole, in the order of the list.
C9_SplitEvent ==
    Serialized =>
      \A event_id \in DOMAIN events :
        ~FitsInSection(events[event_id]) =>
          LET pos == PositionsOf(event_id)
              sects == {p[1] : p \in pos}
          IN  /\ LoopsOf(FlatEntries(eit_out), event_id) = DescsOf(events[event_id].descs)
              /\ Cardinality(pos) >= 2
              /\ Cardinality(sects) = Cardinality(pos)
              /\ \A i \in DOMAIN eit_out :
                   (\E a \in sects : a <= i) /\ (\E b \in sects : i <= b) => i \in sects
              /\ \A p \in pos :
                   /\ eit_out[p[1]][p[2]].fixed = EventFixedPart(event_id, events[event_id])
                   /\ eit_out[p[1]][p[2]].loop # <<>>
                   /\ (\E q \in pos : q[1] < p[1]) => p[2] = 1
              /\ \A i \in DOMAIN eit_out : PayloadSize(eit_out[i]) <= 1012

\* An event of five descriptors that does not fit in one section is serialized
\* after another event.
C9_Witness ==
    /\ Serialized
    /\ \E event_id \in DOMAIN events :
         /\ ~FitsInSection(events[event_id])
         /\ Len(events[event_id].descs) = 5
         /\ \E other \in DOMAIN events : other < event_id
         /\ Cardinality(PositionsOf(event_id)) = 2

\* The event entries of a binary table where the entries that continue the event
\* of the entry before are merged with it.
RECURSIVE MergedEntries(_)
MergedEntries(entries) ==
    IF Len(entries) < 2 THEN entries
    ELSE IF entries[1].fixed = entries[2].fixed
         THEN MergedEntries(<<EventEntry(entries[1].fixed, entries[1].loop \o entries[2].loop)>>
                            \o Tail(Tail(entries)))
         ELSE <<entries[1]>> \o MergedEntries(Tail(entries))

\* The received binary table has no truncated descriptor.
WellFormedTable == eit_bin \in BinTables

\* C10: a well-formed binary EIT that is deserialized then serialized gives a
\* binary table with the same event entries (event_id, start_time, duration,
\* running_status, CA_controlled, descriptors), in the same order.
C10_RoundTrip ==
    (eit_phase = "reserialized" /\ WellFormedTable)
    => MergedEntries(FlatEntries(eit_out)) = MergedEntries(FlatEntries(eit_bin))

\* C10, content only: the event entries of the two tables are the same set.
C10_SameContent ==
    (eit_phase = "reserialized" /\ WellFormedTable)
    => { MergedEntries(FlatEntries(eit_out))[i] : i \in DOMAIN MergedEntries(FlatEntries(eit_out)) }
       = { MergedEntries(FlatEntries(eit_bin))[i] : i \in DOMAIN MergedEntries(FlatEntries(eit_bin)) }

(***************************************************************************)
(* Claims about ts::PCRVerifyPlugin                                        *)
(***************************************************************************)

\* (r * (pcr2 - pcr1) - (p2 - p1) * 188 * 8 * 27000000) / r in the integers, for
\* the arguments of the last call of jitter(): computed on 16 bytes, where no
\* operation on these values overflows.
ExactJitter ==
    WDiv(WSub(WMul(FromInt(pv_hist.rate, 16),
                   WSub(SignExtend(pv_hist.pcr2, 16), SignExtend(pv_hist.pcr1, 16))),
              WMul(WMul(FromInt(pv_hist.pkt2 - pv_hist.pkt1, 16), FromInt(188 * 8, 16)),
                   FromInt(27000000, 16))),
         pv_hist.rate)

\* r * (pcr2 - pcr1) is the same on 8 and on 16 bytes: no overflow in jitter().
JitterFitsInt64 ==
    SignExtend(WMul(Int64(pv_hist.rate), WSub(pv_hist.pcr2, pv_hist.pcr1)), 16)
    = WMul(FromInt(pv_hist.rate, 16),
           WSub(SignExtend(pv_hist.pcr2, 16), SignExtend(pv_hist.pcr1, 16)))

\* C11: the jitter that the plugin reports for two PCR's pcr1, pcr2 of one PID, at
\* the packets p1, p2, with the bitrate r (not zero), is
\* (r * (pcr2 - pcr1) - (p2 - p1) * 188 * 8 * 27000000) / r.
C11_JitterFormula ==
    (pv_hist.kind = "nok" /\ pv_hist.rate # 0)
    => SignExtend(pv_hist.jit, 16) = ExactJitter

\* C11, when r * (pcr2 - pcr1) fits in a 64-bit signed integer: the jitter of the
\* plugin is the value of the formula.
C11_JitterWithoutOverflow ==
    (pv_hist.kind \in {"ok", "nok"} /\ pv_hist.rate # 0 /\ JitterFitsInt64)
    => SignExtend(pv_hist.jit, 16) = ExactJitter

\* The number of PCR's of the selected PID's that have a PCR before them on
\* their PID since start.
RECURSIVE PCRWithPrevious(_)
PCRWithPrevious(pids) ==
    IF pids = {} THEN 0
    ELSE LET p == CHOOSE q \in pids : TRUE
         IN  (IF pv_hist.seen[p] >= 1 THEN pv_hist.seen[p] - 1 ELSE 0) + PCRWithPrevious(pids \ {p})

\* C12: on the selected PID's, the PCR's counted as unchecked are the first ones
\* of their PID since start, and every other PCR is compared with the PCR before
\* it on its PID and counted as OK or as exceeding the jitter threshold.
C12_AllButFirstCompared ==
    /\ nb_pcr_unchecked = Cardinality({p \in VerifyPids : pv_hist.seen[p] >= 1})
    /\ nb_pcr_ok + nb_pcr_nok = PCRWithPrevious(VerifyPids)

(***************************************************************************)
(* Claims about removeInvalidPrivateDescriptors                            *)
(***************************************************************************)

\* A private descriptor (tag >= 0x80) that no private data specifier precedes.
InvalidPrivate(e) == e.desc.tag >= 128 /\ e.pds = 0

\* The elements of a list that are not private descriptors without PDS, in order.
RECURSIVE WithoutInvalidPrivate(_)
WithoutInvalidPrivate(l) ==
    IF l = <<>> THEN <<>>
    ELSE (IF InvalidPrivate(l[1]) THEN <<>> ELSE <<l[1]>>) \o WithoutInvalidPrivate(Tail(l))

\* C13: after removeInvalidPrivateDescriptors(), the list has no private
\* descriptor (tag >= 0x80) whose associated PDS is 0, the other descriptors are
\* all kept, in their order, and the result is the number of descriptors removed.
C13_NoInvalidPrivateLeft ==
    dl_last.op = "removeInvalidPrivateDescriptors"
    => /\ \A i \in DOMAIN list : ~InvalidPrivate(list[i])
       /\ list = WithoutInvalidPrivate(dl_last.before)
       /\ dl_last.ret = Len(dl_last.before) - Len(list)

(***************************************************************************)
(* Claims about ts::PMTPlugin                                              *)
(***************************************************************************)

\* The stream_identifier_descriptors of a descriptor list, in order.
IsStreamId(e) == e.desc.tag = 82
StreamIdsOf(l) == [i \in DOMAIN SelectSeq(l, IsStreamId) |-> SelectSeq(l, IsStreamId)[i].desc]

\* The component tags of the well-formed stream_identifier_descriptors of a list.
TagsOf(l) == {l[i].desc.val : i \in {k \in DOMAIN l : l[k].desc.tag = 82 /\ l[k].desc.psize = 1}}

\* The component tags present in the PMT that was received.
TagsPresent == UNION {TagsOf(pm_in.streams[p].descs) : p \in DOMAIN pm_in.streams}

\* The components of the received PMT without stream_identifier_descriptor.
WithoutStreamId ==
    {p \in DOMAIN pm_in.streams : \A i \in DOMAIN pm_in.streams[p].descs :
                                     pm_in.streams[p].descs[i].desc.tag # 82}

\* The stream_identifier_descriptors of the modified PMT: every component has
\* one; a component that had none has one, with one byte of payload, and its
\* component tag is not in the received PMT and is not the new tag of another
\* component; the components that had some have the same ones.
StreamIdsAdded ==
    /\ DOMAIN pm_out.streams = DOMAIN pm_in.streams
    /\ \A p \in DOMAIN pm_out.streams : StreamIdsOf(pm_out.streams[p].descs) # <<>>
    /\ \A p \in WithoutStreamId :
         /\ Len(StreamIdsOf(pm_out.streams[p].descs)) = 1
         /\ StreamIdsOf(pm_out.streams[p].descs)[1].psize = 1
         /\ StreamIdsOf(pm_out.streams[p].descs)[1].val \notin TagsPresent
         /\ \A q \in WithoutStreamId \ {p} :
              StreamIdsOf(pm_out.streams[q].descs) # StreamIdsOf(pm_out.streams[p].descs)
    /\ \A p \in DOMAIN pm_in.streams \ WithoutStreamId :
         StreamIdsOf(pm_out.streams[p].descs) = StreamIdsOf(pm_in.streams[p].descs)

CountAC3(l) == Cardinality({i \in DOMAIN l : l[i].desc.tag = 106})

\* C15: with --ac3-atsc2dvb, in each modified PMT a component whose stream type
\* was 0x81 has the stream type 0x06 and at least one AC-3_descriptor (tag 0x6A),
\* which is added only if there was none; a component of another stream type
\* keeps its AC-3_descriptors, keeps its stream type (unless --eac3-atsc2dvb
\* changes it from 0x87), and is not changed at all when no other option is given.
C15_AC3AtscToDvb ==
    (pm_count > 0 /\ pm_opt.ac3_atsc2dvb) =>
      /\ DOMAIN pm_out.streams = DOMAIN pm_in.streams
      /\ \A p \in DOMAIN pm_in.streams :
           IF pm_in.streams[p].stream_type = 129
           THEN /\ pm_out.streams[p].stream_type = 6
                /\ CountAC3(pm_out.streams[p].descs) >= 1
                /\ CountAC3(pm_out.streams[p].descs)
                     = (IF CountAC3(pm_in.streams[p].descs) = 0 THEN 1
                        ELSE CountAC3(pm_in.streams[p].descs))
           ELSE /\ CountAC3(pm_out.streams[p].descs) = CountAC3(pm_in.streams[p].descs)
                /\ pm_out.streams[p].stream_type # pm_in.streams[p].stream_type
                     => (pm_opt.eac3_atsc2dvb /\ pm_in.streams[p].stream_type = 135)
                /\ (~pm_opt.eac3_atsc2dvb /\ ~pm_opt.cleanup_priv_desc /\ ~pm_opt.add_stream_id)
                     => pm_out.streams[p] = pm_in.streams[p]

\* A PMT with an AC-3 component (0x81) that has an AC-3_descriptor, another one
\* that has none, and a component of another type was modified with --ac3-atsc2dvb.
C15_Witness ==
    /\ pm_count > 0 /\ pm_opt.ac3_atsc2dvb
    /\ \E p \in DOMAIN pm_in.streams :
         pm_in.streams[p].stream_type = 129 /\ CountAC3(pm_in.streams[p].descs) = 1
    /\ \E p \in DOMAIN pm_in.streams :
         /\ pm_in.streams[p].stream_type = 129 /\ CountAC3(pm_in.streams[p].descs) = 0
         /\ CountAC3(pm_out.streams[p].descs) = 1
    /\ \E p \in DOMAIN pm_in.streams : pm_in.streams[p].stream_type = 2

(***************************************************************************)
(* Claims about ts::SIFilterPlugin                                         *)
(***************************************************************************)

\* The PID's that currently carry a selected table: the fixed PID's of the
\* table options, the PMT PID's of the current PAT with --pmt, and the ECM/EMM
\* PID's that matched the CAS selection.
SelectedPIDs ==
    {TablePID(t) : t \in sf_opt.tables}
    \cup (IF sf_opt.pmt THEN sf_pat ELSE {})
    \cup sf_cas_pids

\* C16: at every point of the run, a packet is forwarded only if its PID
\* currently carries one of the selected tables (fixed PID of an option, PMT PID
\* of the current PAT with --pmt, matching ECM/EMM PID); every other packet is
\* dropped or, with --stuffing, replaced by a null packet.
C16_OnlySelectedForwarded ==
    sf_hist.seen > 0 =>
        /\ sf_hist.status = TSP_OK => sf_hist.pid \in SelectedPIDs
        /\ sf_hist.status # TSP_OK =>
               sf_hist.status = (IF sf_opt.stuffing THEN TSP_NULL ELSE TSP_DROP)

\* What the plugin guarantees: a forwarded PID was selected at some point since
\* start(), by the current PAT or by an earlier one.
C16_ForwardedWasPassed ==
    sf_hist.seen > 0 => (sf_hist.status = TSP_OK <=> sf_hist.pid \in sf_pass_pids)

(***************************************************************************)
(* Claims about the typed descriptors                                      *)
(***************************************************************************)

\* A DVB string (after its length byte) is well-formed: an optional one-byte
\* character table selector, then characters.
WellFormedString(dvb) == \A i \in 2..Len(dvb) : dvb[i] >= 32

\* The bytes of a buffer that hold a string with byte length, and what follows.
StringAt(buffer) ==
    IF Len(buffer) = 0 \/ buffer[1] > Len(buffer) - 1 THEN [ok |-> FALSE, rest |-> <<>>]
    ELSE [ok |-> WellFormedString(SubSeq(buffer, 2, buffer[1] + 1)),
          rest |-> SubSeq(buffer, buffer[1] + 2, Len(buffer))]

\* The binary descriptor follows the grammar of its class: reserved bits at
\* their standard value, every announced field present, no byte left over.
WellFormed(class, desc) ==
    LET data == desc.payload
    IN  /\ desc.valid /\ desc.tag = TagOf(class)
        /\ CASE class = "AC3" ->
                    /\ Len(data) >= 1
                    /\ data[1] % 16 = 0
                    /\ Len(data) - 1 >= Cardinality({m \in {16, 32, 64, 128} : Bit(data[1], m)})
             [] class = "PDS" -> Len(data) = 4
             [] class = "Service" ->
                    /\ Len(data) >= 3
                    /\ StringAt(SubSeq(data, 2, Len(data))).ok
                    /\ StringAt(StringAt(SubSeq(data, 2, Len(data))).rest).ok
                    /\ StringAt(StringAt(SubSeq(data, 2, Len(data))).rest).rest = <<>>
             [] class = "DataBroadcast" ->
                    /\ Len(data) >= 8
                    /\ data[4] + 8 <= Len(data)
                    /\ \A i \in (data[4] + 5)..(data[4] + 7) : data[i] >= 65
                    /\ StringAt(SubSeq(data, data[4] + 8, Len(data))).ok
                    /\ StringAt(SubSeq(data, data[4] + 8, Len(data))).rest = <<>>

\* serialize() was called after a deserialize() that accepted a well-formed input.
RoundTripDone ==
    /\ td_phase = "encoded"
    /\ td_bin.valid
    /\ td_obj.is_valid
    /\ WellFormed(td_obj.class, td_bin)

\* C17: for every typed descriptor and every well-formed wire input b that
\* deserialize accepts as valid, serialize(deserialize(b)) gives bytes identical
\* to b.
C17_SerializeDeserialize == RoundTripDone => td_out = td_bin

\* The strings of the input have no character table selector.
NoSelector(desc) == \A i \in DOMAIN desc.payload : desc.payload[i] \notin {5, 21}

\* What the code guarantees: the round trip of well-formed inputs whose strings
\* use the default character table.
C17_RoundTripDefaultTable ==
    (RoundTripDone /\ NoSelector(td_bin)) => td_out = td_bin

\* C18: whenever deserialize fails, the validity flag is false and all fields
\* are cleared to their default values, whatever the object contained before.
C18_FailureClearsFields ==
    (td_phase = "decoded" /\ ~td_obj.is_valid) =>
        td_obj = [TDDefault(td_obj.class) EXCEPT !.is_valid = FALSE]

\* What the code guarantees: deserialize of a binary descriptor that is invalid
\* or has another tag fails.
C18_FailureIsFlagged ==
    (td_phase = "decoded" /\ (~td_bin.valid \/ td_bin.tag # TagOf(td_obj.class))) => ~td_obj.is_valid

(***************************************************************************)
(* Claims about truncated descriptors in an EIT                            *)
(***************************************************************************)

\* An event of the received binary table has a descriptor loop that ends with
\* a truncated descriptor: declared length exceeding the remaining bytes.
HasTruncatedDescriptor ==
    \E si \in DOMAIN eit_bin : \E ei \in DOMAIN eit_bin[si] :
        /\ "trunc" \in DOMAIN eit_bin[si][ei]
        /\ DescSize(eit_bin[si][ei].trunc.desc) > eit_bin[si][ei].trunc.present

\* C19: when a descriptor loop being decoded contains a truncated descriptor,
\* e.g. inside an EIT event, the object being decoded (the EIT) is marked invalid.
C19_TruncatedMarksInvalid ==
    (eit_phase = "decoded" /\ HasTruncatedDescriptor) => ~is_valid

\* What the code does: the complete descriptors before the truncated one are
\* kept in the event and the truncated one is dropped.
C19_TruncatedDropped ==
    (eit_phase = "decoded" /\ HasTruncatedDescriptor) =>
        \A si \in DOMAIN eit_bin : \A ei \in DOMAIN eit_bin[si] :
            DescsOf(events[eit_bin[si][ei].fixed.event_id].descs) = eit_bin[si][ei].loop

(***************************************************************************)
(* Claims about ts::PCRExtractPlugin                                       *)
(***************************************************************************)

\* The time stamp types of the lines of the report.
ReportedTypes == {px_report[i].type : i \in DOMAIN px_report}

\* The time stamp types that the command line asks for: those of the options
\* given, or the four types when none of --pcr, --opcr, --pts, --dts is given.
RequestedTypes ==
    IF ~px_opt.pcr /\ ~px_opt.opcr /\ ~px_opt.pts /\ ~px_opt.dts
    THEN {"PCR", "OPCR", "PTS", "DTS"}
    ELSE {t \in {"PCR", "OPCR", "PTS", "DTS"} :
            \/ t = "PCR" /\ px_opt.pcr
            \/ t = "OPCR" /\ px_opt.opcr
            \/ t = "PTS" /\ px_opt.pts
            \/ t = "DTS" /\ px_opt.dts}

\* The time stamp types that the packets processed since start() carry and
\* that --good-pts-only does not filter out: the first PTS of a PID is good.
CarriedTypes ==
    {t \in {"PCR", "OPCR", "PTS", "DTS"} :
        \E p \in DOMAIN px_stats :
            \/ t = "PCR" /\ px_stats[p].pcr_count > 0
            \/ t = "OPCR" /\ px_stats[p].opcr_count > 0
            \/ t = "PTS" /\ px_stats[p].pts_count > 0
            \/ t = "DTS" /\ px_stats[p].dts_count > 0}

\* C20: a time stamp type is reported if and only if its option is given or
\* none of --pcr, --opcr, --pts, --dts is given: with --pts alone the report
\* has PTS lines and no DTS lines, with --dts alone DTS lines and no PTS lines.
C20_ReportedIffRequested == ReportedTypes = RequestedTypes \cap CarriedTypes

\* What the code guarantees: PCR and OPCR lines follow their options, and with
\* no option or with both --pts and --dts all the types are reported.
C20_PCRAndOPCR ==
    /\ ReportedTypes \cap {"PCR", "OPCR"} = RequestedTypes \cap CarriedTypes \cap {"PCR", "OPCR"}
    /\ px_opt.pts = px_opt.dts => ReportedTypes = RequestedTypes \cap CarriedTypes

\* The pairs <<i, j>> of lines of the report that are two successive PTS lines
\* of the same PID.
SuccessivePTSLines ==
    { <<i, j>> \in (DOMAIN px_report) \X (DOMAIN px_report) :
        /\ i < j
        /\ px_report[i].type = "PTS" /\ px_report[j].type = "PTS"
        /\ px_report[i].pid = px_report[j].pid
        /\ \A k \in (i + 1)..(j - 1) :
               ~(px_report[k].type = "PTS" /\ px_report[k].pid = px_report[i].pid) }

C22_HoldOffOfCurrentBitrate ==
    (cl_opt.drop_after = 0 /\ cl_hist.idx > 0 /\ cl_hist.second > 0 /\ cl_hist.status # TSP_END)
        => drop_after = cl_hist.second

\* What the code guarantees: without --drop-after-packets, a packet is processed
\* only with a hold-off that is one second of some bitrate of the pipeline.
C22_HoldOffOfSomeBitrate ==
    (cl_opt.drop_after = 0 /\ cl_hist.idx > 0 /\ cl_hist.status # TSP_END)
        => drop_after \in {b \div (PKT_SIZE * 8) : b \in Bitrates} \ {0}

(***************************************************************************)
(* C23: the selected PLP                                                   *)
(***************************************************************************)
\* C23: when extraction is on, the selected PLP is the value of --plp when the
\* option is given; otherwise no PLP is selected before the plugin has got a T2-MI
\* packet with a valid PLP, and from then on the selected PLP is the PLP of the
\* first such packet since start(), whatever the later packets carry.
C23_SelectedPLP ==
    extract =>
        IF t2_opt.plp # -1
        THEN plp_valid /\ plp = t2_opt.plp
        ELSE /\ plp_valid <=> (t2_hist.first # -1)
             /\ plp_valid => plp = t2_hist.first
\* C23 witnesses: without --plp, a PLP was selected and a later T2-MI packet of
\* another PLP was processed; with --plp, a packet of another PLP was processed.
C23_Witness ==
    /\ extract
    /\ t2_opt.plp = -1
    /\ plp_valid
    /\ t2_hist.delivered > t2_hist.selected
    /\ t2_hist.selected > 0

(***************************************************************************)
(* C24: --max-dump-count                                                   *)
(***************************************************************************)
\* The run up to the first call of processPacket that returned TSP_END, which is
\* where tsp stops calling the plugin.
UpToFirstEnd == pes_hist.ends = 0 \/ (pes_hist.ends = 1 /\ pes_hist.status = TSP_END)
\* C24: with --max-dump-count N, N > 0, at most N dumps are written up to the call
\* of processPacket that returns TSP_END, and the call that writes the N-th dump
\* returns TSP_END.
C24_AtMostNDumps ==
    (pes_opt.max_dump_count > 0 /\ UpToFirstEnd) =>
        /\ pes_hist.dumps <= pes_opt.max_dump_count
        /\ pes_hist.dumps >= pes_opt.max_dump_count => pes_hist.status = TSP_END
\* C24, the part that holds: the call that writes the N-th dump returns TSP_END, and
\* no call returns TSP_END before N dumps are written.
C24_NthDumpEnds ==
    (pes_opt.max_dump_count > 0 /\ pes_hist.n > 0 /\ UpToFirstEnd) =>
        (pes_hist.dumps >= pes_opt.max_dump_count <=> pes_hist.status = TSP_END)
\* C24: more dumps than --max-dump-count were written by the first call that
\* returned TSP_END.
C24_TooManyDumps ==
    /\ pes_opt.max_dump_count > 0
    /\ UpToFirstEnd
    /\ pes_hist.dumps > pes_opt.max_dump_count

(***************************************************************************)
(* C25: the packets of the PMT PID                                         *)
(***************************************************************************)
\* C25: a packet is forwarded as it was received only when the PMT PID is known and
\* the packet is on another PID; a forwarded packet of the PMT PID is the next
\* packet of the packetizer; while the PMT PID is not known no packet is forwarded.
C25_NoOriginalPMTPacket ==
    /\ pm_hist.out = "original" => (pm_service.pmt_pid # 0 /\ pm_hist.pid # pm_service.pmt_pid)
    /\ (pm_hist.status = TSP_OK /\ pm_hist.pid = pm_service.pmt_pid) => pm_hist.out = "packetizer"
    /\ (pm_hist.status = TSP_OK /\ pm_hist.pid # pm_service.pmt_pid) => pm_hist.out = "original"
    /\ (pm_service.pmt_pid = 0 /\ pm_hist.status # "none") => pm_hist.status \in {TSP_DROP, TSP_END}
\* C25 witnesses: a packet of the PMT PID was replaced after the PAT gave the PMT
\* PID.
C25_Witness ==
    /\ pm_opt.pmt_pid = 0
    /\ pm_service.pmt_pid = PMT_PID_1
    /\ pm_hist.pid = PMT_PID_1
    /\ pm_hist.out = "packetizer"
    /\ pm_count > 0
\* C25 witnesses: a packet of the PMT PID was dropped while the PMT PID was not known.
C25_DroppedBeforeKnown ==
    /\ pm_service.pmt_pid = 0
    /\ pm_hist.pid = PMT_PID_1
    /\ pm_hist.status = TSP_DROP

(***************************************************************************)
(* C26: --move-pid                                                         *)
(***************************************************************************)
\* The components that the --move-pid options move: they are in the PMT and their
\* new PID is not their old one.
MovedComponents ==
    {p \in DOMAIN pm_opt.moved_pid \cap DOMAIN pm_in.streams : pm_opt.moved_pid[p] # p}
\* Each moved component is in the modified PMT on its new PID with its stream type
\* and descriptors, each other component is there on its PID as it was received,
\* and the modified PMT has as many components as the received one.
MoveFrame ==
    /\ \A p \in MovedComponents :
          /\ pm_opt.moved_pid[p] \in DOMAIN pm_out.streams
          /\ pm_out.streams[pm_opt.moved_pid[p]] = pm_in.streams[p]
    /\ \A p \in DOMAIN pm_in.streams \ MovedComponents :
          p \in DOMAIN pm_out.streams /\ pm_out.streams[p] = pm_in.streams[p]
    /\ Cardinality(DOMAIN pm_out.streams) = Cardinality(DOMAIN pm_in.streams)
\* C26: with any --move-pid options and any PMT, the moved components change only
\* their PID, the other components are unchanged and the number of components is
\* preserved.
C26_MoveChangesOnlyPID == (pm_count > 0 /\ pm_opt.moved_pid # NoMovedPid) => MoveFrame
\* No new PID of a --move-pid option is the PID of a component of the received PMT
\* or the new PID of another option.
MoveToFreePids ==
    /\ \A p \in MovedComponents : pm_opt.moved_pid[p] \notin DOMAIN pm_in.streams
    /\ \A p, q \in MovedComponents : p # q => pm_opt.moved_pid[p] # pm_opt.moved_pid[q]
\* C26, the part that holds: the frame of --move-pid when the new PID's are free.
C26_MoveToFreePID ==
    (pm_count > 0 /\ pm_opt.moved_pid # NoMovedPid /\ MoveToFreePids) => MoveFrame
\* C26 witnesses: two components were moved to free PID's.
C26_Witness ==
    /\ pm_count > 0
    /\ Cardinality(MovedComponents) = 2
    /\ MoveToFreePids

(***************************************************************************)
(* C27: EIT::setActual                                                     *)
(***************************************************************************)
\* The range of the table id's of an EIT schedule, actual or other.
ScheduleRange(is_actual) ==
    IF is_actual THEN TID_EIT_S_ACT_MIN..TID_EIT_S_ACT_MAX ELSE TID_EIT_S_OTH_MIN..TID_EIT_MAX
\* C27: after setActual(is_actual), the table id and the last table id of an EIT
\* schedule are both in the range of is_actual with their low 4 bits unchanged, and
\* both id's of an EIT present/following are the p/f table id of is_actual.
C27_SetActualSameRange ==
    ti_hist.called =>
        IF isPresentFollowing(ti_hist.table_id)
        THEN /\ ti_table_id = (IF ti_hist.is_actual THEN TID_EIT_PF_ACT ELSE TID_EIT_PF_OTH)
             /\ ti_last_table_id = ti_table_id
        ELSE /\ ti_table_id \in ScheduleRange(ti_hist.is_actual)
             /\ ti_last_table_id \in ScheduleRange(ti_hist.is_actual)
             /\ Low4(ti_table_id) = Low4(ti_hist.table_id)
             /\ Low4(ti_last_table_id) = Low4(ti_hist.last_table_id)
\* C27, the part that holds: the same for the table id in all cases, and for the
\* last table id when is_actual is true or the EIT is present/following; the low 4
\* bits of the last table id are kept in all cases.
C27_SetActualTableId ==
    ti_hist.called =>
        IF isPresentFollowing(ti_hist.table_id)
        THEN /\ ti_table_id = (IF ti_hist.is_actual THEN TID_EIT_PF_ACT ELSE TID_EIT_PF_OTH)
             /\ ti_last_table_id = ti_table_id
        ELSE /\ ti_table_id \in ScheduleRange(ti_hist.is_actual)
             /\ ti_hist.is_actual => ti_last_table_id \in ScheduleRange(TRUE)
             /\ Low4(ti_table_id) = Low4(ti_hist.table_id)
             /\ Low4(ti_last_table_id) = Low4(ti_hist.last_table_id)
\* C27: setActual(false) on an EIT schedule left the last table id in the range of
\* the EIT schedule actual, below the table id.
C27_LastTableIdActual ==
    /\ ti_hist.called /\ ~ti_hist.is_actual
    /\ ti_table_id \in ScheduleRange(FALSE)
    /\ ti_last_table_id \in ScheduleRange(TRUE)

(***************************************************************************)
(* C28: TSP_END is final                                                   *)
(***************************************************************************)
\* ClearPlugin: a call of processPacket that follows a call that returned TSP_END,
\* without start() in between, returns TSP_END.
ClearEndIsFinal == cl_hist.ended_before => cl_hist.status = TSP_END
\* PMTPlugin: the same.
PMTEndIsFinal == pm_hist.ended_before => pm_hist.status = TSP_END
\* PESPlugin: the same.
PESEndIsFinal == pes_hist.ends > 0 => pes_hist.status = TSP_END
\* C28: in the Clear, PMT and PES plugins, every call of processPacket that follows
\* a call that returned TSP_END, without start() in between, returns TSP_END.
C28_EndIsFinal == ClearEndIsFinal /\ PMTEndIsFinal /\ PESEndIsFinal
\* C28, the part that holds for the Clear plugin: TSP_END is final when it comes
\* from _abort, that is when a table did not give the service.
C28_ClearAbortIsFinal == (cl_hist.ended_before /\ abort) => cl_hist.status = TSP_END
\* C28: the Clear plugin returned TSP_END and then another status.
C28_ClearResumed ==
    /\ cl_hist.ended_before
    /\ cl_hist.status \in {TSP_OK, TSP_DROP, TSP_NULL}
\* C28: the PMT plugin was called again after it returned TSP_END.
C28_PMTCalledAfterEnd == pm_hist.ended_before /\ pm_hist.pid = VIDEO_PID
\* C28: the PES plugin was called again after it returned TSP_END.
C28_PESCalledAfterEnd == pes_hist.ends > 1

(***************************************************************************)
(* C29: the PCR's counted as OK                                            *)
(***************************************************************************)
\* C29: a PCR is counted as OK only when its jitter was computed with a bitrate
\* that is not zero (--bitrate or the bitrate of the pipeline) and its absolute
\* value is not greater than the threshold.
C29_OKOnlyWithBitrate ==
    pv_hist.kind = "ok" =>
        /\ pv_hist.rate # 0
        /\ WLe(AbsJitter(pv_hist.jit), Int64(jitter_max))
\* C29, the part that holds: a PCR is counted as OK only when the absolute value of
\* the jitter that jitter() returned, which is 0 for the bitrate 0, is not greater
\* than the threshold.
C29_OKOnlyBelowThreshold ==
    pv_hist.kind = "ok" =>
        /\ WLe(AbsJitter(pv_hist.jit), Int64(jitter_max))
        /\ pv_hist.rate = 0 => pv_hist.jit = Int64(0)
\* C29: a PCR was counted as OK while no bitrate was known.
C29_OKWithoutBitrate ==
    /\ pv_hist.kind = "ok"
    /\ pv_hist.rate = 0
    /\ nb_pcr_ok > 0

(***************************************************************************)
(* C30: sections without event                                             *)
(***************************************************************************)
\* serialize() has built the binary table of a valid EIT.
EITSerialized == eit_phase \in {"serialized", "reserialized"} /\ is_valid
\* A section of the binary table holds only the 6-byte fixed part.
HasEmptySection == \E i \in DOMAIN eit_out : eit_out[i] = <<>>
\* C30: the binary table of a valid EIT with at least one event has no section
\* that holds only the 6-byte fixed part, whatever the sizes of the descriptor
\* loops; the binary table of an EIT without event is one such section.
C30_NoEmptySection ==
    EITSerialized =>
        IF DOMAIN events = {} THEN eit_out = << <<>> >> ELSE ~HasEmptySection
\* The description of every event fits in the payload of one section.
EveryEventFits ==
    \A event_id \in DOMAIN events :
        EVENT_FIXED_SIZE + binarySize(events[event_id].descs)
            <= MAX_PSI_LONG_SECTION_PAYLOAD_SIZE - EIT_FIXED_SIZE
\* C30, the part that holds: the same when the description of every event fits in
\* the payload of one section.
C30_NoEmptySectionIfFit ==
    (EITSerialized /\ EveryEventFits) =>
        IF DOMAIN events = {} THEN eit_out = << <<>> >> ELSE ~HasEmptySection
\* C30: the binary table of an EIT with one event starts with a section that holds
\* only the fixed part.
C30_EmptyFirstSection ==
    /\ EITSerialized
    /\ Cardinality(DOMAIN events) = 1
    /\ Len(eit_out) >= 2
    /\ eit_out[1] = <<>>
\* C30: an EIT whose events fill more than one section was serialized without
\* section that holds only the fixed part.
C30_SeveralSections ==
    /\ EITSerialized /\ EveryEventFits
    /\ Len(eit_out) >= 2
====
